---- MODULE Spec2Model ----
(***************************************************************************)
(* A model of the music-station server: the playlist database             *)
(* (src/src/playlist.rs) and the in-memory music library                  *)
(* (src/src/library.rs).                                                  *)
(*                                                                         *)
(* The playlist database is two SQL tables.  Every SQL statement of the   *)
(* source is one operator on the tables; a handler is the composition of  *)
(* its statements.  SpecPl runs the handlers one call at a time, SpecPlRW *)
(* runs update_playlist and get_playlist statement by statement on        *)
(* concurrent connections of the pool.  The created_at / updated_at       *)
(* columns are left out: no handler reads them back into a decision.      *)
(*                                                                         *)
(* The library is the index (a Vec<Track> behind a RwLock) and the files  *)
(* of the library folder.  A critical section under the lock is one step; *)
(* the file reads and writes between two critical sections are steps of   *)
(* their own.  SpecLib runs two mutation tasks and the lyrics-flag update *)
(* concurrently, SpecLibSeq one mutation at a time on a file system that  *)
(* can fail, SpecScan a scan() beside get_tracks / get_track.             *)
(***************************************************************************)
EXTENDS Integers, Sequences, FiniteSets, TLC

\* ------------------------------------------------------------------ bounds
NumTracks == 3          \* track ids 1..NumTracks
MaxLen == 2             \* longest replacement track list of an update
MaxRows == 3            \* most rows the table playlist_tracks holds

TrackIds == 1..NumTracks
PlaylistIds == {"p1", "p2"}     \* the uuids create_playlist can draw
Names == {"n1", "n2"}
Descriptions == {"d1"}
None == "None"          \* Option::None of an optional name / description

Clients == {"c1", "c2"}         \* concurrent requests on the playlist database

NumEntries == 3         \* entries of the library folder, in walk order
Paths == 1..NumEntries
Strings == {"x"}                \* the values a tag field takes
Mutators == {"m1", "m2"}        \* concurrent mutation requests on the library
Roots == {"/music", "/mnt/music"}   \* where the library folder can be mounted
DefaultRoot == "/music"

MaxPlays == 3           \* most plays of one track
MaxRangeLen == 4        \* longest Range header value after its "bytes=" prefix
MaxFileSize == 12       \* largest size of an audio file, in bytes
MaxFragments == 3       \* most pieces a lyric content is made of
MaxProviders == 2       \* most providers an aggregator holds
MaxResults == 2         \* most results a search returns
NumBlocks == 4           \* values tried for each byte of a block
MaxFields == 2          \* most fields of a metadata update that are not null
MaxIndex == 3           \* most tracks of an index that is grouped into albums
NumReaders == 2         \* concurrent GET /stats requests
NumLyricRequests == 2   \* concurrent PUT /lyrics/:id, and DELETE /lyrics/:id, requests
Players == {"r1", "r2"}         \* concurrent POST /tracks/:id/play requests

VARIABLES
    playlists,          \* table playlists: rows [id, name, description]
    playlist_tracks,    \* table playlist_tracks: rows [playlist_id, track_id, position]
    ret,                \* what the last finished playlist call returned (SpecPl)
    pl_pc,              \* per client: the statement its handler executes next
    pl_call,            \* per client: the arguments and locals of its handler
    pl_out,             \* per client: what its last call returned
    tracks,             \* MusicLibrary.tracks, the index: a sequence of Track
    disk,               \* the library folder: path -> [kind, tag]
    lib_pc,             \* per mutation task: the step it executes next
    lib_call,           \* per mutation task: its arguments and locals
    lib_out,            \* per mutation task: what its last call returned
    scan_pc,            \* where scan() is
    scan_i,             \* the entry the walk of scan() visits next
    scan_buf,           \* "let mut tracks = Vec::new()" of scan()
    scan_warned,        \* the paths scan() logged a "Failed to parse" warning for
    scan_out,           \* what the last scan() returned
    lib_read,           \* what the last get_tracks / get_track returned
    library_path,       \* MusicLibrary.library_path: where the folder is mounted
    track_stats,        \* table track_stats: rows [track_id, play_count]
    play_count,         \* Track.play_count of the index entries, by track id
    st_pc,              \* per play request: the step its handler executes next
    st_call,            \* per play request: its arguments and locals
    st_out,             \* per play request: what its last call answered
    stream_out,         \* the last GET /stream/:id request and its response
    lyrics,             \* table lyrics: rows [track_id, content, format, language, source]
    ly_in,              \* the lyric upload or content a request carries
    ly_out,             \* what the last lyric call answered
    providers,          \* LyricsAggregator.providers: what each provider's API answers
    fx_pc,              \* where fetch_lyrics is
    fx_i,               \* the provider the loop of fetch_lyrics is at
    fx_best,            \* best_match of the running search_and_fetch
    fx_log,             \* the calls of search and fetch made, in order
    fx_out,             \* what fetch_lyrics returned
    des_in,             \* the key and the block given to the Triple-DES
    des_out,            \* the blocks the Triple-DES has produced from them
    md_in,              \* a file, its tag and the update asked for it
    md_file,            \* the tag the file holds
    md_index,           \* the canonical fields of the track in the index
    md_out,             \* what update_track_metadata and get_track returned
    al_in,              \* an index of tracks with their album and artist
    al_out,             \* what get_albums and get_artists returned for it
    rw_pc,              \* per task: the lock request of its code it has reached
    rw_readers,         \* per task: the read guards of the track list it holds
    rw_writer,          \* the tasks that hold the write guard of the track list
    rw_queue,           \* the tasks that wait for the lock, the first to come first
    lr_pc,              \* per lyric request: the statement its handler executes next
    lr_out,             \* per lyric request: the status it returned
    pl_locals           \* per client: the locals of its add or remove handler

dbVars == <<playlists, playlist_tracks>>
rwVars == <<pl_pc, pl_call, pl_out>>
plVars == <<playlists, playlist_tracks, ret, pl_pc, pl_call, pl_out>>
mutVars == <<lib_pc, lib_call, lib_out>>
scanVars == <<scan_pc, scan_i, scan_buf, scan_warned, scan_out>>
libVars == <<tracks, disk, lib_pc, lib_call, lib_out,
             scan_pc, scan_i, scan_buf, scan_warned, scan_out, lib_read, library_path>>
statsVars == <<track_stats, play_count, st_pc, st_call, st_out>>
lyricVars == <<lyrics, ly_in, ly_out>>
fetchVars == <<providers, fx_pc, fx_i, fx_best, fx_log, fx_out>>
desVars == <<des_in, des_out>>
metaVars == <<md_in, md_file, md_index, md_out>>
\* the state of the parts that are checked on their own
groupVars == <<al_in, al_out>>
lockVars == <<rw_pc, rw_readers, rw_writer, rw_queue>>
raceVars == <<lr_pc, lr_out>>
posVars == <<pl_locals>>
extVars == <<fetchVars, desVars, metaVars, groupVars, lockVars, raceVars, posVars>>
\* the state of the server
serverVars == <<playlists, playlist_tracks, ret, pl_pc, pl_call, pl_out,
                tracks, disk, lib_pc, lib_call, lib_out,
                scan_pc, scan_i, scan_buf, scan_warned, scan_out, lib_read, library_path,
                track_stats, play_count, st_pc, st_call, st_out, stream_out,
                lyrics, ly_in, ly_out>>
outsideFetch == <<serverVars, desVars, metaVars, groupVars, lockVars, raceVars, posVars>>
outsideDes == <<serverVars, fetchVars, metaVars, groupVars, lockVars, raceVars, posVars>>
outsideMeta == <<serverVars, fetchVars, desVars, groupVars, lockVars, raceVars, posVars>>
outsideGroup == <<serverVars, fetchVars, desVars, metaVars, lockVars, raceVars, posVars>>
outsideLock == <<serverVars, fetchVars, desVars, metaVars, groupVars, raceVars, posVars>>
\* what no playlist action, no library action changes
outsidePl == <<libVars, statsVars, stream_out, lyricVars, extVars>>
outsideLib == <<plVars, library_path, statsVars, stream_out, lyricVars, extVars>>
vars == <<playlists, playlist_tracks, ret, pl_pc, pl_call, pl_out,
          tracks, disk, lib_pc, lib_call, lib_out,
          scan_pc, scan_i, scan_buf, scan_warned, scan_out, lib_read, library_path,
          track_stats, play_count, st_pc, st_call, st_out, stream_out,
          lyrics, ly_in, ly_out, extVars>>

\* ----------------------------------------------------- values and helpers
Min(S) == CHOOSE x \in S : \A y \in S : x <= y
Max(S) == CHOOSE x \in S : \A y \in S : x >= y

RECURSIVE SeqsUpTo(_, _)
SeqsUpTo(S, n) ==
    IF n = 0 THEN {<<>>}
    ELSE LET shorter == SeqsUpTo(S, n - 1)
         IN  shorter \cup {Append(s, x) : s \in {t \in shorter : Len(t) = n - 1}, x \in S}

Range(s) == {s[i] : i \in 1..Len(s)}
IsInjective(s) == \A i, j \in 1..Len(s) : s[i] = s[j] => i = j

NoPlaylist == [id |-> None, name |-> None, description |-> None, tracks |-> <<>>]
Playlist(id, name, description, track_ids) ==
    [id |-> id, name |-> name, description |-> description, tracks |-> track_ids]

\* PlaylistUpdate { name, description, tracks }: tracks is Option<Vec<String>>
PlaylistUpdate ==
    [name : {None} \cup Names,
     description : {None} \cup Descriptions,
     has_tracks : BOOLEAN,
     tracks : SeqsUpTo(TrackIds, MaxLen)]
PlaylistUpdates == {u \in PlaylistUpdate : ~u.has_tracks => u.tracks = <<>>}
NoUpdate == [name |-> None, description |-> None, has_tracks |-> FALSE, tracks |-> <<>>]

\* Result<Option<Playlist>>: Ok(Some(p)), Ok(None), the "already exists" error,
\* any other error; op names the handler that returned it
Ok(op, p) == [op |-> op, status |-> "ok", playlist |-> p]
OkNone(op) == [op |-> op, status |-> "none", playlist |-> NoPlaylist]
ErrAlreadyExists(op) == [op |-> op, status |-> "already_exists", playlist |-> NoPlaylist]
ErrOther(op) == [op |-> op, status |-> "error", playlist |-> NoPlaylist]
\* the locals of a handler that runs statement by statement
NoCall == [op |-> "none", id |-> None, update |-> NoUpdate,
           name |-> None, description |-> None, i |-> 0]
Call(op, id, update) == [NoCall EXCEPT !.op = op, !.id = id, !.update = update]

\* Result<bool> of delete_playlist
OkDeleted(op, deleted) ==
    [op |-> op, status |-> IF deleted THEN "deleted" ELSE "not_deleted",
     playlist |-> NoPlaylist]
NoReturn == [op |-> "none", status |-> "none", playlist |-> NoPlaylist]

\* ------------------------------------------------------- SQL statements
\* SELECT COUNT(*) FROM playlists WHERE id = ?
CountPlaylists(pl, id) == Cardinality({r \in pl : r.id = id})

\* SELECT id, name, description, ... FROM playlists WHERE id = ?
SelectPlaylist(pl, id) == {r \in pl : r.id = id}

\* INSERT INTO playlists ...: name is UNIQUE, id the primary key
InsertPlaylist(pl, id, name, description) ==
    IF \E r \in pl : r.name = name \/ r.id = id
    THEN [ok |-> FALSE, rows |-> pl]
    ELSE [ok |-> TRUE,
          rows |-> pl \cup {[id |-> id, name |-> name, description |-> description]}]

\* the UPDATE on a table whose name column is not UNIQUE
UpdatePlaylistRow_NoUnique(pl, id, name, description) ==
    [ok |-> TRUE,
     rows |-> {IF r.id = id
               THEN [id |-> id, name |-> name, description |-> description]
               ELSE r : r \in pl}]

\* UPDATE playlists SET name = ?, description = ?, updated_at = ? WHERE id = ?
UpdatePlaylistRow(pl, id, name, description) ==
    IF \E r \in pl : r.id # id /\ r.name = name /\ (\E q \in pl : q.id = id)
    THEN [ok |-> FALSE, rows |-> pl]
    ELSE [ok |-> TRUE,
          rows |-> {IF r.id = id
                    THEN [id |-> id, name |-> name, description |-> description]
                    ELSE r : r \in pl}]

\* DELETE FROM playlists WHERE id = ?
DeletePlaylistRow(pl, id) == {r \in pl : r.id # id}

\* FOREIGN KEY (playlist_id) REFERENCES playlists(id) ON DELETE CASCADE
CascadeDelete(pt, id) == {r \in pt : r.playlist_id # id}

TracksOf(pt, pid) == {r \in pt : r.playlist_id = pid}

\* SELECT track_id FROM playlist_tracks WHERE playlist_id = ? ORDER BY position
\* (rows with equal positions come back in either order)
RECURSIVE OrderByPosition(_)
OrderByPosition(rows) ==
    IF rows = {} THEN {<<>>}
    ELSE LET m == Min({r.position : r \in rows})
         IN  UNION {{<<r.track_id>> \o s : s \in OrderByPosition(rows \ {r})}
                    : r \in {q \in rows : q.position = m}}

get_playlist_tracks(pt, pid) == OrderByPosition(TracksOf(pt, pid))

\* DELETE FROM playlist_tracks WHERE playlist_id = ?
DeleteTracks(pt, pid) == {r \in pt : r.playlist_id # pid}

\* the INSERT on a table without the primary key (playlist_id, track_id)
InsertTrack_NoPrimaryKey(pl, pt, pid, tid, pos) ==
    IF ~(\E p \in pl : p.id = pid)
    THEN [ok |-> FALSE, rows |-> pt]
    ELSE [ok |-> TRUE,
          rows |-> pt \cup {[playlist_id |-> pid, track_id |-> tid, position |-> pos]}]

\* INSERT INTO playlist_tracks (playlist_id, track_id, position) VALUES (?, ?, ?)
\* PRIMARY KEY (playlist_id, track_id); the foreign key needs the playlist
InsertTrack(pl, pt, pid, tid, pos) ==
    IF (\E r \in pt : r.playlist_id = pid /\ r.track_id = tid)
       \/ ~(\E p \in pl : p.id = pid)
    THEN [ok |-> FALSE, rows |-> pt]
    ELSE [ok |-> TRUE,
          rows |-> pt \cup {[playlist_id |-> pid, track_id |-> tid, position |-> pos]}]

\* INSERT OR REPLACE instead of INSERT OR IGNORE: the conflicting row is replaced
InsertOrReplaceTrack(pl, pt, pid, tid, pos) ==
    [ok |-> \E p \in pl : p.id = pid,
     rows |-> IF \E p \in pl : p.id = pid
              THEN {r \in pt : ~(r.playlist_id = pid /\ r.track_id = tid)}
                   \cup {[playlist_id |-> pid, track_id |-> tid, position |-> pos]}
              ELSE pt]

\* INSERT OR IGNORE INTO playlist_tracks ...: a primary-key conflict is skipped
InsertOrIgnoreTrack(pl, pt, pid, tid, pos) ==
    IF \E r \in pt : r.playlist_id = pid /\ r.track_id = tid
    THEN [ok |-> TRUE, rows |-> pt]
    ELSE InsertTrack(pl, pt, pid, tid, pos)

\* SELECT MAX(position) FROM playlist_tracks WHERE playlist_id = ?  (.unwrap_or(-1))
MaxPosition(pt, pid) ==
    IF TracksOf(pt, pid) = {} THEN -1
    ELSE Max({r.position : r \in TracksOf(pt, pid)})

\* DELETE FROM playlist_tracks WHERE playlist_id = ? AND track_id = ?
DeleteTrack(pt, pid, tid) == {r \in pt : ~(r.playlist_id = pid /\ r.track_id = tid)}
RowsAffected(before, after) == Cardinality(before \ after)

\* UPDATE playlist_tracks SET position = ? WHERE playlist_id = ? AND track_id = ?
UpdatePosition(pt, pid, tid, pos) ==
    {IF r.playlist_id = pid /\ r.track_id = tid
     THEN [playlist_id |-> pid, track_id |-> tid, position |-> pos]
     ELSE r : r \in pt}

\* ------------------------------------------ loops of the playlist handlers
\* update_playlist: for (position, track_id) in track_ids.iter().enumerate()
\* { INSERT ... ? }  -- stops at the first insert that fails
RECURSIVE InsertTracksFrom(_, _, _, _, _)
InsertTracksFrom(pl, pt, pid, track_ids, i) ==
    IF i > Len(track_ids) THEN [ok |-> TRUE, rows |-> pt]
    ELSE LET r == InsertTrack(pl, pt, pid, track_ids[i], i - 1)
         IN  IF r.ok THEN InsertTracksFrom(pl, r.rows, pid, track_ids, i + 1)
             ELSE [ok |-> FALSE, rows |-> r.rows]

\* remove_track_from_playlist without its reorder loop
ReorderFrom_Skipped(pt, pid, track_ids, i) == pt

\* remove_track_from_playlist: for (position, track_id) in tracks.iter().enumerate()
\* { UPDATE playlist_tracks SET position = ? ... }
RECURSIVE ReorderFrom(_, _, _, _)
ReorderFrom(pt, pid, track_ids, i) ==
    IF i > Len(track_ids) THEN pt
    ELSE ReorderFrom(UpdatePosition(pt, pid, track_ids[i], i - 1), pid, track_ids, i + 1)

\* get_playlist: the row, then its tracks; the possible return values
get_playlist_results(op, pl, pt, id) ==
    IF SelectPlaylist(pl, id) = {} THEN {OkNone(op)}
    ELSE LET row == CHOOSE r \in pl : r.id = id
         IN  {Ok(op, Playlist(row.id, row.name, row.description, t))
              : t \in get_playlist_tracks(pt, id)}

\* the rows a playlist holding the track list s at positions 0..Len(s)-1 has
RowsOfList(p, s) ==
    {[playlist_id |-> p, track_id |-> s[i], position |-> i - 1] : i \in 1..Len(s)}

\* the bound on the size of the table playlist_tracks
WithinRows(pt) == Cardinality(pt) <= MaxRows

\* ------------------------------------------------- the library: its values
\* format!("{:x}", md5::compute(path.to_string_lossy().as_bytes())): a digest,
\* one per path
Md5(path) == <<"md5", path>>

\* dir.join(entry): the path of the entry p of the folder mounted at root, as
\* read_dir yields it; the folder itself is disk, whatever the root
Join(root, p) == <<root, p>>
\* path.strip_prefix(&library_path)
RelativePath(path) == path[2]
NoPath == Join("", 0)

\* the ids of the entries of the folder, wherever it is mounted: the ids a
\* request can name
LibraryIds == {Md5(Join(root, p)) : root \in Roots, p \in Paths}
NoId == Md5(NoPath)             \* the id of no track

\* what a tag of an audio file holds: two of its text fields and whether it
\* has a front cover picture
Tags == [title : {None} \cup Strings, artist : {None} \cup Strings, cover : BOOLEAN]
NoTag == [title |-> None, artist |-> None, cover |-> FALSE]

\* an entry of the library folder: an audio file (.flac / .mp3) with its tag,
\* a file with another extension, or a subdirectory
AudioFile(tag) == [kind |-> "audio", tag |-> tag]
OtherFile == [kind |-> "other", tag |-> NoTag]
Directory == [kind |-> "dir", tag |-> NoTag]

NoTrack == [id |-> NoId, path |-> NoPath, title |-> None, artist |-> None,
            has_cover |-> FALSE, has_lyrics |-> FALSE]

\* TrackMetadataUpdate { title, artist, ... }: every field an Option
TrackMetadataUpdate == [title : {None} \cup Strings, artist : {None} \cup Strings]
NoMetadataUpdate == [title |-> None, artist |-> None]

\* parse_audio_file on a file that opens and probes: the Track it returns
parse_audio_file(d, path) ==
    [id |-> Md5(path), path |-> path,
     title |-> d[RelativePath(path)].tag.title,
     artist |-> d[RelativePath(path)].tag.artist,
     has_cover |-> d[RelativePath(path)].tag.cover,
     has_lyrics |-> FALSE]

\* tracks.iter().position(|t| t.id == id)
Positions(index, id) == {i \in 1..Len(index) : index[i].id = id}
\* tracks.iter().find(|t| t.id == id).cloned()
FindTrack(index, id) ==
    IF Positions(index, id) = {} THEN NoTrack ELSE index[Min(Positions(index, id))]

\* write_flac_metadata / write_mp3_metadata: "if let Some(v) = &update.f { set }"
ApplyUpdate(tag, update) ==
    [tag EXCEPT !.title = IF update.title # None THEN update.title ELSE @,
                !.artist = IF update.artist # None THEN update.artist ELSE @]

\* what a mutation does to the tag it has read, before it saves it
ModifyTag(op, tag, update) ==
    CASE op = "update_track_metadata" -> ApplyUpdate(tag, update)
      [] op = "set_cover_art" -> [tag EXCEPT !.cover = TRUE]
      [] op = "remove_cover_art" -> [tag EXCEPT !.cover = FALSE]

\* "if let Some(pos) = tracks.iter().position(|t| t.id == id) { tracks[pos] = t }"
ReplaceTrack(index, id, track) ==
    IF Positions(index, id) = {} THEN index
    ELSE [index EXCEPT ![Min(Positions(index, id))] = track]

\* Result<Track> / Result<()> of a mutation
LibOk(op, id, track) == [op |-> op, id |-> id, status |-> "ok", track |-> track]
LibErr(op, id, why) == [op |-> op, id |-> id, status |-> why, track |-> NoTrack]
NoLibReturn == [op |-> "none", id |-> NoId, status |-> "none", track |-> NoTrack]

\* PUT /tracks/:id, the status of the response to the Result of
\* update_track_metadata: ".map(Json).map_err(|e| { ..; INTERNAL_SERVER_ERROR })"
update_track(result) == IF result.status = "ok" THEN 200 ELSE 500

\* the locals of a mutation
NoLibCall == [op |-> "none", id |-> NoId, update |-> NoMetadataUpdate,
              track |-> NoTrack, tag |-> NoTag, updated_track |-> NoTrack]

\* Result<()> of scan(); at is the entry whose error ended the walk (0: the
\* library root) and what the call that failed
ScanOk == [status |-> "ok", at |-> 0, what |-> "none"]
ScanErr(i, what) == [status |-> "err", at |-> i, what |-> what]
NoScanReturn == [status |-> "none", at |-> 0, what |-> "none"]

NoRead == [op |-> "none", id |-> NoId, tracks |-> <<>>]

\* scan_directory, "tracks.push(track)" pushing into the shared index
PushTrack_IntoIndex(index, buf, track) ==
    [index |-> Append(index, track), buf |-> Append(buf, track)]

\* scan_directory, "tracks.push(track)": tracks is the Vec local to scan()
PushTrack(index, buf, track) == [index |-> index, buf |-> Append(buf, track)]

\* the index a walk of the folder d yields when the files in warned fail to
\* parse: the tracks of the other audio files, in walk order
RECURSIVE IndexOf(_, _, _)
IndexOf(d, warned, n) ==
    IF n = 0 THEN <<>>
    ELSE IF d[n].kind = "audio" /\ n \notin warned
         THEN Append(IndexOf(d, warned, n - 1),
                     parse_audio_file(d, Join(library_path, n)))
         ELSE IndexOf(d, warned, n - 1)

\* the has_lyrics flag of every track set (the lyrics database has them all)
WithLyrics(index) == [i \in 1..Len(index) |-> [index[i] EXCEPT !.has_lyrics = TRUE]]

\* no mutation in flight
MutIdle ==
    /\ lib_pc = [m \in Mutators |-> "idle"]
    /\ lib_call = [m \in Mutators |-> NoLibCall]
    /\ lib_out = [m \in Mutators |-> NoLibReturn]

\* no scan in flight
ScanIdle ==
    /\ scan_pc = "idle"
    /\ scan_i = 0
    /\ scan_buf = <<>>
    /\ scan_warned = {}
    /\ scan_out = NoScanReturn

\* StatsDatabase::new on a new file, no play request in flight
StatsQuiet ==
    /\ track_stats = {}
    /\ play_count = [id \in LibraryIds |-> 0]
    /\ st_pc = [r \in Players |-> "idle"]
    /\ st_call = [r \in Players |-> [id |-> NoId, count |-> 0]]
    /\ st_out = [r \in Players |-> [status |-> 0, count |-> 0]]

\* what a response of the endpoint says: the status, Content-Length and
\* Content-Range (<<start, end, total>>, or <<>> without the header)
StreamResponse(status, content_length, content_range) ==
    [status |-> status, content_length |-> content_length,
     content_range |-> content_range]

\* the Range header of a request: absent, or a value
NoHeader == [present |-> FALSE, value |-> <<>>]
Header(value) == [present |-> TRUE, value |-> value]
NotStreamed == [id |-> NoId, range |-> NoHeader, file_size |-> 0, io_ok |-> TRUE,
                response |-> StreamResponse(0, 0, <<>>)]

\* enum LyricFormat
LyricFormats == {"Plain", "Lrc", "LrcWord"}

\* struct Lyric, without its two timestamps
Lyric(track_id, content, format, language, source) ==
    [track_id |-> track_id, content |-> content, format |-> format,
     language |-> language, source |-> source]
NoLyric == Lyric(NoId, <<>>, "Plain", None, None)

\* the path and body of PUT /lyrics/:id: struct LyricUpload, whose format is
\* an Option<String>
LyricUpload(id, content, has_format, format, language, source) ==
    [id |-> id, content |-> content, has_format |-> has_format, format |-> format,
     language |-> language, source |-> source]
NoUpload == LyricUpload(NoId, <<>>, FALSE, <<>>, None, None)

\* what a lyric call answers: the status, the bool or is_some() of the value
\* and the Lyric
LyricReturn(op, track_id, status, flag, lyric) ==
    [op |-> op, track_id |-> track_id, status |-> status, flag |-> flag,
     lyric |-> lyric]
NoLyricReturn == LyricReturn("none", NoId, 0, FALSE, NoLyric)

\* LyricDatabase::new on a new file, no lyric request made
LyricsQuiet ==
    /\ lyrics = {}
    /\ ly_in = NoUpload
    /\ ly_out = NoLyricReturn

\* Result<Option<LyricsResponse>> of fetch_lyrics: the response is named by
\* the provider and the result id it was fetched for
FetchReturn(status, provider, id) == [status |-> status, provider |-> provider, id |-> id]
NoFetchReturn == FetchReturn("none", 0, 0)

\* LyricsSearchResult, its id and confidence (in tenths)
LyricsSearchResult(id, confidence) == [id |-> id, confidence |-> confidence]
NoSearchResult == LyricsSearchResult(0, 0)

\* an aggregator without providers, no fetch_lyrics call made
FetchQuiet ==
    /\ providers = <<>>
    /\ fx_pc = "idle"
    /\ fx_i = 0
    /\ fx_best = NoSearchResult
    /\ fx_log = <<>>
    /\ fx_out = NoFetchReturn

\* no key and block given to the Triple-DES: arrays of bytes, a byte the set
\* of the positions of its one bits
NoBytes == <<>>
DesQuiet ==
    /\ des_in = [key |-> NoBytes, block |-> NoBytes]
    /\ des_out = [stage |-> "none", mode |-> 0, pass |-> 0, idx |-> 0,
                  state |-> <<{}, {}>>, decrypted |-> NoBytes, encrypted |-> NoBytes]

\* a text field: a sequence of characters, the empty one for None
NoText == <<>>
\* no tag, no fields of a track
NoFields == [f \in {} |-> NoText]
MetaQuiet ==
    /\ md_in = [ext |-> "", tag |-> NoFields, update |-> NoFields, year_frame |-> ""]
    /\ md_file = NoFields
    /\ md_index = NoFields
    /\ md_out = [status |-> "none", track |-> NoFields, read |-> FALSE, got |-> NoFields]

GroupQuiet ==
    /\ al_in = <<>>
    /\ al_out = [stage |-> "none", albums |-> <<>>, artists |-> <<>>]

\* no task has asked for the lock of the track list
LockQuiet ==
    /\ rw_pc = <<>>
    /\ rw_readers = <<>>
    /\ rw_writer = {}
    /\ rw_queue = <<>>

\* no PUT /lyrics or DELETE /lyrics request is handled step by step
RaceQuiet ==
    /\ lr_pc = <<>>
    /\ lr_out = <<>>

\* no add_track_to_playlist or remove_track_from_playlist runs step by step
PosQuiet == pl_locals = <<>>

\* none of the parts checked on their own has run
ExtQuiet ==
    FetchQuiet /\ DesQuiet /\ MetaQuiet /\ GroupQuiet /\ LockQuiet /\ RaceQuiet /\ PosQuiet

\* the side databases as created, no request in flight or answered
ServerQuiet ==
    /\ StatsQuiet
    /\ stream_out = NotStreamed
    /\ LyricsQuiet
    /\ ExtQuiet

\* MusicLibrary::new on an empty folder
LibEmpty ==
    /\ library_path = DefaultRoot
    /\ tracks = <<>>
    /\ disk = [p \in Paths |-> OtherFile]
    /\ MutIdle
    /\ ScanIdle
    /\ lib_read = NoRead
    /\ ServerQuiet

\* --------------------------------- the handlers, one call at a time (SpecPl)
create_playlist(name, description) ==
    \E id \in PlaylistIds :
        /\ ~(\E r \in playlists : r.id = id)          \* uuid::Uuid::new_v4()
        /\ LET result == InsertPlaylist(playlists, id, name, description)
           IN  /\ playlists' = result.rows
               /\ ret' = IF result.ok
                         THEN Ok("create_playlist", Playlist(id, name, description, <<>>))
                         ELSE ErrAlreadyExists("create_playlist")
        /\ UNCHANGED <<playlist_tracks, rwVars, outsidePl>>

get_playlist(id) ==
    /\ ret' \in get_playlist_results("get_playlist", playlists, playlist_tracks, id)
    /\ UNCHANGED <<playlists, playlist_tracks, rwVars, outsidePl>>

update_playlist(id, update) ==
  /\ UNCHANGED <<rwVars, outsidePl>>
  /\ IF CountPlaylists(playlists, id) = 0
    THEN /\ ret' = OkNone("update_playlist")
         /\ UNCHANGED <<playlists, playlist_tracks>>
    ELSE
      LET current == CHOOSE r \in playlists : r.id = id
          name == IF update.name # None THEN update.name ELSE current.name
          description == IF update.description # None
                         THEN update.description ELSE current.description
          renamed == IF update.name # None \/ update.description # None
                     THEN UpdatePlaylistRow(playlists, id, name, description)
                     ELSE [ok |-> TRUE, rows |-> playlists]
      IN  IF ~renamed.ok
          THEN /\ ret' = ErrAlreadyExists("update_playlist")
               /\ UNCHANGED <<playlists, playlist_tracks>>
          ELSE
            LET inserted ==
                  IF update.has_tracks
                  THEN InsertTracksFrom(renamed.rows,
                                        DeleteTracks(playlist_tracks, id),
                                        id, update.tracks, 1)
                  ELSE [ok |-> TRUE, rows |-> playlist_tracks]
            IN  /\ WithinRows(inserted.rows)
                /\ playlists' = renamed.rows
                /\ playlist_tracks' = inserted.rows
                /\ IF inserted.ok
                   THEN ret' \in get_playlist_results("update_playlist",
                                                        renamed.rows, inserted.rows, id)
                   ELSE ret' = ErrOther("update_playlist")

delete_playlist(id) ==
    /\ playlists' = DeletePlaylistRow(playlists, id)
    /\ playlist_tracks' = CascadeDelete(playlist_tracks, id)
    /\ ret' = OkDeleted("delete_playlist", RowsAffected(playlists, playlists') > 0)
    /\ UNCHANGED <<rwVars, outsidePl>>

add_track_to_playlist(playlist_id, track_id) ==
  /\ UNCHANGED <<rwVars, outsidePl>>
  /\ IF CountPlaylists(playlists, playlist_id) = 0
    THEN /\ ret' = OkNone("add_track_to_playlist")
         /\ UNCHANGED <<playlists, playlist_tracks>>
    ELSE
      LET max_position == MaxPosition(playlist_tracks, playlist_id)
          new_position == max_position + 1
          inserted == InsertOrIgnoreTrack(playlists, playlist_tracks,
                                          playlist_id, track_id, new_position)
      IN  /\ WithinRows(inserted.rows)
          /\ playlist_tracks' = inserted.rows
          /\ ret' \in get_playlist_results("add_track_to_playlist",
                                            playlists, inserted.rows, playlist_id)
          /\ UNCHANGED playlists

remove_track_from_playlist(playlist_id, track_id) ==
  /\ UNCHANGED <<rwVars, outsidePl>>
  /\ LET deleted == DeleteTrack(playlist_tracks, playlist_id, track_id)
    IN  IF RowsAffected(playlist_tracks, deleted) > 0
        THEN \E track_ids \in get_playlist_tracks(deleted, playlist_id) :
               LET reordered == ReorderFrom(deleted, playlist_id, track_ids, 1)
               IN  /\ playlist_tracks' = reordered
                   /\ ret' \in get_playlist_results("remove_track_from_playlist",
                                                     playlists, reordered, playlist_id)
                   /\ UNCHANGED playlists
        ELSE /\ ret' = OkNone("remove_track_from_playlist")
             /\ UNCHANGED <<playlists, playlist_tracks>>

\* no request in flight
RwIdle ==
    /\ pl_pc = [c \in Clients |-> "idle"]
    /\ pl_call = [c \in Clients |-> NoCall]
    /\ pl_out = [c \in Clients |-> NoReturn]

PlInit ==
    /\ playlists = {}
    /\ playlist_tracks = {}
    /\ ret = NoReturn
    /\ RwIdle
    /\ LibEmpty

\* the updates SpecPl draws: a rename or a replacement of the track list, of
\* playlists without a description
PlUpdates == {u \in PlaylistUpdates :
                /\ u.description = None
                /\ u.has_tracks => u.name = None}

PlNext ==
    \/ \E name \in Names : create_playlist(name, None)
    \/ \E id \in PlaylistIds : get_playlist(id)
    \/ \E id \in PlaylistIds, update \in PlUpdates : update_playlist(id, update)
    \/ \E id \in PlaylistIds : delete_playlist(id)
    \/ \E id \in PlaylistIds, t \in TrackIds :
           add_track_to_playlist(id, t)
    \/ \E id \in PlaylistIds, t \in TrackIds : remove_track_from_playlist(id, t)

SpecPl == PlInit /\ [][PlNext]_vars

\* ------------- update_playlist and get_playlist, statement by statement (SpecPlRW)
\* Each step is one SQL statement on a connection of the pool: no handler
\* opens a transaction, so the statements of two requests interleave freely.
Return(c, value) ==
    /\ pl_out' = [pl_out EXCEPT ![c] = value]
    /\ pl_pc' = [pl_pc EXCEPT ![c] = "idle"]
    /\ pl_call' = [pl_call EXCEPT ![c] = NoCall]

Goto(c, label, locals) ==
    /\ pl_pc' = [pl_pc EXCEPT ![c] = label]
    /\ pl_call' = [pl_call EXCEPT ![c] = locals]
    /\ UNCHANGED pl_out

\* where update_playlist goes once the playlist row is settled
AfterMetadata(update) == IF update.has_tracks THEN "up_delete" ELSE "gp_row"

\* update_playlist, "SELECT COUNT(*) FROM playlists WHERE id = ?"
up_begin(c, id, update) ==
    /\ pl_pc[c] = "idle"
    /\ IF CountPlaylists(playlists, id) = 0
       THEN Return(c, OkNone("update_playlist"))
       ELSE Goto(c, IF update.name # None \/ update.description # None
                    THEN "up_current" ELSE AfterMetadata(update),
                 Call("update_playlist", id, update))
    /\ UNCHANGED <<dbVars, ret, outsidePl>>

\* update_playlist, "let current = self.get_playlist(id).await?.ok_or_else(..)?"
\* (the row; the track list get_playlist also selects is never used)
up_current(c) ==
    /\ pl_pc[c] = "up_current"
    /\ LET call == pl_call[c]
           rows == SelectPlaylist(playlists, call.id)
       IN  IF rows = {}
           THEN Return(c, ErrOther("update_playlist"))
           ELSE LET current == CHOOSE r \in rows : TRUE
                IN  Goto(c, "up_rename",
                         [call EXCEPT
                            !.name = IF call.update.name # None
                                     THEN call.update.name ELSE current.name,
                            !.description = IF call.update.description # None
                                            THEN call.update.description
                                            ELSE current.description])
    /\ UNCHANGED <<dbVars, ret, outsidePl>>

\* update_playlist, "UPDATE playlists SET name = ?, description = ?, ..."
up_rename(c) ==
    /\ pl_pc[c] = "up_rename"
    /\ LET call == pl_call[c]
           result == UpdatePlaylistRow(playlists, call.id, call.name, call.description)
       IN  IF ~result.ok
           THEN /\ Return(c, ErrAlreadyExists("update_playlist"))
                /\ UNCHANGED playlists
           ELSE /\ playlists' = result.rows
                /\ Goto(c, AfterMetadata(call.update), call)
    /\ UNCHANGED <<playlist_tracks, ret, outsidePl>>

\* update_playlist, "DELETE FROM playlist_tracks WHERE playlist_id = ?"
up_delete(c) ==
    /\ pl_pc[c] = "up_delete"
    /\ playlist_tracks' = DeleteTracks(playlist_tracks, pl_call[c].id)
    /\ Goto(c, IF pl_call[c].update.tracks = <<>> THEN "gp_row" ELSE "up_insert",
             [pl_call[c] EXCEPT !.i = 1])
    /\ UNCHANGED <<playlists, ret, outsidePl>>

\* update_playlist, one "INSERT INTO playlist_tracks ..." of the loop
up_insert(c) ==
    /\ pl_pc[c] = "up_insert"
    /\ LET call == pl_call[c]
           result == InsertTrack(playlists, playlist_tracks, call.id,
                                 call.update.tracks[call.i], call.i - 1)
       IN  IF ~result.ok
           THEN /\ Return(c, ErrOther("update_playlist"))
                /\ UNCHANGED playlist_tracks
           ELSE /\ WithinRows(result.rows)
                /\ playlist_tracks' = result.rows
                /\ Goto(c, IF call.i = Len(call.update.tracks)
                            THEN "gp_row" ELSE "up_insert",
                         [call EXCEPT !.i = call.i + 1])
    /\ UNCHANGED <<playlists, ret, outsidePl>>

\* get_playlist, "SELECT id, name, description, ... FROM playlists WHERE id = ?"
SelectRow(c, call) ==
    LET rows == SelectPlaylist(playlists, call.id)
    IN  IF rows = {}
        THEN Return(c, OkNone(call.op))
        ELSE LET row == CHOOSE r \in rows : TRUE
             IN  Goto(c, "gp_tracks",
                      [call EXCEPT !.name = row.name, !.description = row.description])

\* a get_playlist request: its first statement
gp_begin(c, id) ==
    /\ pl_pc[c] = "idle"
    /\ SelectRow(c, Call("get_playlist", id, NoUpdate))
    /\ UNCHANGED <<dbVars, ret, outsidePl>>

\* "self.get_playlist(id).await" that ends update_playlist: its first statement
gp_row(c) ==
    /\ pl_pc[c] = "gp_row"
    /\ SelectRow(c, pl_call[c])
    /\ UNCHANGED <<dbVars, ret, outsidePl>>

\* get_playlist, "let tracks = self.get_playlist_tracks(&id).await?"
gp_tracks(c) ==
    /\ pl_pc[c] = "gp_tracks"
    /\ \E track_ids \in get_playlist_tracks(playlist_tracks, pl_call[c].id) :
           Return(c, Ok(pl_call[c].op,
                        Playlist(pl_call[c].id, pl_call[c].name,
                                 pl_call[c].description, track_ids)))
    /\ UNCHANGED <<dbVars, ret, outsidePl>>

\* the reorderings of the whole library: the track lists SpecPlRW stores
Reorderings == {s \in SeqsUpTo(TrackIds, NumTracks) :
                  Len(s) = NumTracks /\ IsInjective(s)}
ReorderUpdates ==
    [name : {None} \cup Names, description : {None},
     has_tracks : {TRUE}, tracks : Reorderings]

\* one playlist that holds every track, in some order
PlRWInit ==
    /\ playlists = {[id |-> "p1", name |-> "n1", description |-> None]}
    /\ \E s \in Reorderings : playlist_tracks = RowsOfList("p1", s)
    /\ ret = NoReturn
    /\ RwIdle
    /\ LibEmpty

\* c1 reorders the playlist (and may rename it), c2 reads it
PlRWNext ==
    \/ \E update \in ReorderUpdates : up_begin("c1", "p1", update)
    \/ up_current("c1")
    \/ up_rename("c1")
    \/ up_delete("c1")
    \/ up_insert("c1")
    \/ gp_begin("c2", "p1")
    \/ \E c \in Clients : gp_row(c)
    \/ \E c \in Clients : gp_tracks(c)

SpecPlRW == PlRWInit /\ [][PlRWNext]_vars

\* ---------------------------------------- the library: mutations, step by step
\* A mutation takes the read lock to copy the track, drops it, reads the tag of
\* the file, modifies and saves it, parses the file again, and takes the write
\* lock to replace the entry.  No lock is held between these steps, so the
\* steps of two tasks interleave.
LibReturn(m, value) ==
    /\ lib_out' = [lib_out EXCEPT ![m] = value]
    /\ lib_pc' = [lib_pc EXCEPT ![m] = "idle"]
    /\ lib_call' = [lib_call EXCEPT ![m] = NoLibCall]

LibGoto(m, label, locals) ==
    /\ lib_pc' = [lib_pc EXCEPT ![m] = label]
    /\ lib_call' = [lib_call EXCEPT ![m] = locals]
    /\ UNCHANGED lib_out

\* "let track = { let tracks = self.tracks.read().await; ...find...cloned()
\*  .ok_or_else(|| anyhow!("Track not found"))? }"
find_track(m, op, id, update) ==
    /\ IF Positions(tracks, id) = {}
       THEN LibReturn(m, LibErr(op, id, "not_found"))
       ELSE LibGoto(m, "read_tag",
                    [NoLibCall EXCEPT !.op = op, !.id = id, !.update = update,
                                      !.track = FindTrack(tracks, id)])
    /\ UNCHANGED <<tracks, disk, scanVars, lib_read, outsideLib>>

\* a request for each mutation: its first step
update_track_metadata(m, id, update) ==
    /\ lib_pc[m] = "idle"
    /\ find_track(m, "update_track_metadata", id, update)

set_cover_art(m, id) ==
    /\ lib_pc[m] = "idle"
    /\ find_track(m, "set_cover_art", id, NoMetadataUpdate)

remove_cover_art(m, id) ==
    /\ lib_pc[m] = "idle"
    /\ find_track(m, "remove_cover_art", id, NoMetadataUpdate)

\* "let mut tag = metaflac::Tag::read_from_path(path).context(..)?"
read_tag(m, ok) ==
    /\ lib_pc[m] = "read_tag"
    /\ IF ok
       THEN LibGoto(m, "save_tag",
                    [lib_call[m] EXCEPT !.tag = disk[RelativePath(lib_call[m].track.path)].tag])
       ELSE LibReturn(m, LibErr(lib_call[m].op, lib_call[m].id, "write_failed"))
    /\ UNCHANGED <<tracks, disk, scanVars, lib_read, outsideLib>>

\* the tag modified in memory, then "tag.save().context(..)?"; tag is dropped
save_tag(m, ok) ==
    /\ lib_pc[m] = "save_tag"
    /\ LET call == lib_call[m]
       IN  IF ok
           THEN /\ disk' = [disk EXCEPT ![RelativePath(call.track.path)] =
                               AudioFile(ModifyTag(call.op, call.tag, call.update))]
                /\ LibGoto(m, "reparse", [call EXCEPT !.tag = NoTag])
           ELSE /\ LibReturn(m, LibErr(call.op, call.id, "write_failed"))
                /\ UNCHANGED disk
    /\ UNCHANGED <<tracks, scanVars, lib_read, outsideLib>>

\* "let mut updated_track = self.parse_audio_file(&track.path).await.context(..)?;
\*  updated_track.has_lyrics = track.has_lyrics;"
reparse(m, ok) ==
    /\ lib_pc[m] = "reparse"
    /\ LET call == lib_call[m]
       IN  IF ok
           THEN LibGoto(m, "replace",
                        [call EXCEPT !.updated_track =
                            [parse_audio_file(disk, call.track.path)
                               EXCEPT !.has_lyrics = call.track.has_lyrics]])
           ELSE LibReturn(m, LibErr(call.op, call.id, "parse_failed"))
    /\ UNCHANGED <<tracks, disk, scanVars, lib_read, outsideLib>>

\* "let mut tracks = self.tracks.write().await; if let Some(pos) = ... {
\*  tracks[pos] = updated_track }" and Ok(..)
replace_track(m) ==
    /\ lib_pc[m] = "replace"
    /\ tracks' = ReplaceTrack(tracks, lib_call[m].id, lib_call[m].updated_track)
    /\ LibReturn(m, LibOk(lib_call[m].op, lib_call[m].id, lib_call[m].updated_track))
    /\ UNCHANGED <<disk, scanVars, lib_read, outsideLib>>


\* "if let Some(track) = tracks.iter_mut().find(|t| t.id == track_id) {
\*  track.has_lyrics = has_lyrics }"
SetLyricsStatus(index, track_id, has_lyrics) ==
    IF Positions(index, track_id) = {} THEN index
    ELSE [index EXCEPT ![Min(Positions(index, track_id))].has_lyrics = has_lyrics]

\* update_track_lyrics_status: one critical section under the write lock
update_track_lyrics_status(track_id, has_lyrics) ==
    /\ tracks' = SetLyricsStatus(tracks, track_id, has_lyrics)
    /\ UNCHANGED <<disk, mutVars, scanVars, lib_read, outsideLib>>

\* get_tracks: the index cloned under the read lock
get_tracks ==
    /\ lib_read' = [op |-> "get_tracks", id |-> NoId, tracks |-> tracks]
    /\ UNCHANGED <<tracks, disk, mutVars, scanVars, outsideLib>>

\* get_track: the entry cloned under the read lock
get_track(id) ==
    /\ lib_read' = [op |-> "get_track", id |-> id,
                    tracks |-> IF Positions(tracks, id) = {} THEN <<>>
                               ELSE <<FindTrack(tracks, id)>>]
    /\ UNCHANGED <<tracks, disk, mutVars, scanVars, outsideLib>>

\* ------------------------------------------------- the library: scan()
\* The walk visits the entries 1..NumEntries in order; the entries after a
\* subdirectory are walked next, whether they lie in it or beside it.
\* scan(): "let mut tracks = Vec::new()" and the read_dir of the library root
scan(ok) ==
    /\ scan_pc = "idle"
    /\ IF ok
       THEN /\ scan_pc' = "walk"
            /\ scan_i' = 1
            /\ scan_out' = NoScanReturn
       ELSE /\ scan_pc' = "idle"
            /\ scan_i' = 0
            /\ scan_out' = ScanErr(0, "read_dir")
    /\ scan_buf' = <<>>
    /\ scan_warned' = {}
    /\ UNCHANGED <<tracks, disk, mutVars, lib_read, outsideLib>>

\* scan_directory: one turn of "while let Some(entry) = entries.next_entry().await?"
\* meta_ok: next_entry and tokio::fs::metadata(&path) succeed (both end in "?")
\* io_ok: read_dir of a subdirectory (ends in "?"), parse_audio_file of an audio
\*        file (an Err is logged with tracing::warn!)
scan_directory(meta_ok, io_ok) ==
    /\ scan_pc = "walk"
    /\ scan_i <= NumEntries
    /\ LET entry == disk[scan_i]
           fatal == ~meta_ok \/ (entry.kind = "dir" /\ ~io_ok)
           pushed == IF entry.kind = "audio" /\ io_ok
                     THEN PushTrack(tracks, scan_buf,
                                    parse_audio_file(disk, Join(library_path, scan_i)))
                     ELSE [index |-> tracks, buf |-> scan_buf]
       IN  IF fatal
           THEN /\ scan_pc' = "idle"
                /\ scan_out' = ScanErr(scan_i, IF meta_ok THEN "read_dir" ELSE "metadata")
                /\ UNCHANGED <<tracks, scan_i, scan_buf, scan_warned>>
           ELSE /\ tracks' = pushed.index
                /\ scan_buf' = pushed.buf
                /\ scan_warned' = IF entry.kind = "audio" /\ ~io_ok
                                  THEN scan_warned \cup {scan_i} ELSE scan_warned
                /\ scan_i' = scan_i + 1
                /\ UNCHANGED <<scan_pc, scan_out>>
    /\ UNCHANGED <<disk, mutVars, lib_read, outsideLib>>

\* scan(): "let mut library_tracks = self.tracks.write().await;
\*          *library_tracks = tracks; Ok(())"
scan_replace ==
    /\ scan_pc = "walk"
    /\ scan_i > NumEntries
    /\ tracks' = scan_buf
    /\ scan_pc' = "idle"
    /\ scan_out' = ScanOk
    /\ UNCHANGED <<disk, scan_i, scan_buf, scan_warned, mutVars, lib_read, outsideLib>>

\* ----------------------------------------------- the library: specifications
PlQuiet ==
    /\ playlists = {}
    /\ playlist_tracks = {}
    /\ ret = NoReturn
    /\ RwIdle

\* a scanned library: entry 1 is an audio file with some tag, the other
\* entries are not audio files; the lyrics flag of the track is either way
LibInit ==
    /\ library_path = DefaultRoot
    /\ \E tag \in {t \in Tags : t.artist = None} :
          disk = [p \in Paths |-> IF p = 1 THEN AudioFile(tag) ELSE OtherFile]
    /\ tracks \in {IndexOf(disk, {}, NumEntries), WithLyrics(IndexOf(disk, {}, NumEntries))}
    /\ MutIdle
    /\ ScanIdle
    /\ lib_read = NoRead
    /\ PlQuiet
    /\ ServerQuiet

\* the updates the library specifications draw: of the title
TitleUpdates == {u \in TrackMetadataUpdate : u.artist = None}

\* concurrent mutations and lyrics-flag updates of the indexed track, on a file
\* system without faults: m1 sets and removes the cover, m2 updates the tags
LibNext ==
    \/ \E update \in TitleUpdates : update_track_metadata("m2", Md5(Join(library_path, 1)), update)
    \/ set_cover_art("m1", Md5(Join(library_path, 1)))
    \/ remove_cover_art("m1", Md5(Join(library_path, 1)))
    \/ \E m \in Mutators : read_tag(m, TRUE)
    \/ \E m \in Mutators : save_tag(m, TRUE)
    \/ \E m \in Mutators : reparse(m, TRUE)
    \/ \E m \in Mutators : replace_track(m)
    \/ \E has_lyrics \in BOOLEAN : update_track_lyrics_status(Md5(Join(library_path, 1)), has_lyrics)

SpecLib == LibInit /\ [][LibNext]_vars

\* one mutation at a time, on a file system whose reads and writes can fail
LibSeqNext ==
    \/ \E id \in LibraryIds, update \in TitleUpdates :
           update_track_metadata("m1", id, update)
    \/ \E id \in LibraryIds : set_cover_art("m1", id)
    \/ \E id \in LibraryIds : remove_cover_art("m1", id)
    \/ \E ok \in BOOLEAN : read_tag("m1", ok)
    \/ \E ok \in BOOLEAN : save_tag("m1", ok)
    \/ \E ok \in BOOLEAN : reparse("m1", ok)
    \/ replace_track("m1")

SpecLibSeq == LibInit /\ [][LibSeqNext]_vars

\* any folder; the index is empty (a new MusicLibrary) or holds an earlier scan
\* whose tracks all have lyrics
ScanInit ==
    /\ library_path \in Roots
    /\ disk \in [Paths -> {AudioFile(NoTag), OtherFile, Directory}]
    /\ tracks \in {<<>>, WithLyrics(IndexOf(disk, {}, NumEntries))}
    /\ MutIdle
    /\ ScanIdle
    /\ lib_read = NoRead
    /\ PlQuiet
    /\ ServerQuiet

ScanNext ==
    \/ \E ok \in BOOLEAN : scan(ok)
    \/ \E meta_ok, io_ok \in BOOLEAN : scan_directory(meta_ok, io_ok)
    \/ scan_replace
    \/ get_tracks
    \/ \E id \in LibraryIds : get_track(id)

SpecScan == ScanInit /\ [][ScanNext]_vars

\* ------------------------------------------ play counters (src/src/stats.rs)
\* the stored play_count of a track: 0 when track_stats has no row for it
\* (get_play_count, ".unwrap_or(0)")
StoredCount(stats, track_id) ==
    IF \E r \in stats : r.track_id = track_id
    THEN (CHOOSE r \in stats : r.track_id = track_id).play_count
    ELSE 0

\* the upsert written as INSERT OR REPLACE ... VALUES (?, 1, ..)
IncrementPlayCount_Replace(stats, track_id) ==
    [rows |-> {r \in stats : r.track_id # track_id}
              \cup {[track_id |-> track_id, play_count |-> 1]},
     count |-> 1]

\* INSERT INTO track_stats (track_id, play_count, ..) VALUES (?, 1, ..)
\* ON CONFLICT(track_id) DO UPDATE SET play_count = play_count + 1
\* RETURNING play_count
IncrementPlayCount(stats, track_id) ==
    IF \E r \in stats : r.track_id = track_id
    THEN [rows |-> {IF r.track_id = track_id
                    THEN [r EXCEPT !.play_count = r.play_count + 1]
                    ELSE r : r \in stats},
          count |-> StoredCount(stats, track_id) + 1]
    ELSE [rows |-> stats \cup {[track_id |-> track_id, play_count |-> 1]},
          count |-> 1]

\* Result<Json<u64>, StatusCode> of POST /tracks/:id/play
PlayOk(count) == [status |-> 200, count |-> count]
PlayErr(code) == [status |-> code, count |-> 0]
NoPlayReturn == [status |-> 0, count |-> 0]
NoPlayCall == [id |-> NoId, count |-> 0]

PlayReturn(r, value) ==
    /\ st_out' = [st_out EXCEPT ![r] = value]
    /\ st_pc' = [st_pc EXCEPT ![r] = "idle"]
    /\ st_call' = [st_call EXCEPT ![r] = NoPlayCall]

\* handler increment_play_count: "if state.library.get_track(&id).await.is_none()
\* { return Err(StatusCode::NOT_FOUND) }"
play_begin(r, id) ==
    /\ st_pc[r] = "idle"
    /\ IF Positions(tracks, id) = {}
       THEN PlayReturn(r, PlayErr(404))
       ELSE /\ st_pc' = [st_pc EXCEPT ![r] = "increment"]
            /\ st_call' = [st_call EXCEPT ![r] = [id |-> id, count |-> 0]]
            /\ UNCHANGED st_out
    /\ UNCHANGED <<track_stats, play_count, plVars, libVars, stream_out, lyricVars, extVars>>

\* handler increment_play_count: "state.stats_db.increment_play_count(&id).await
\* .map_err(|e| StatusCode::INTERNAL_SERVER_ERROR)?"; ok: the statement succeeds
increment_play_count(r, ok) ==
    /\ st_pc[r] = "increment"
    /\ StoredCount(track_stats, st_call[r].id) < MaxPlays
    /\ IF ok
       THEN LET result == IncrementPlayCount(track_stats, st_call[r].id)
            IN  /\ track_stats' = result.rows
                /\ st_pc' = [st_pc EXCEPT ![r] = "reconcile"]
                /\ st_call' = [st_call EXCEPT ![r].count = result.count]
                /\ UNCHANGED st_out
       ELSE /\ PlayReturn(r, PlayErr(500))
            /\ UNCHANGED track_stats
    /\ UNCHANGED <<play_count, plVars, libVars, stream_out, lyricVars, extVars>>

\* handler increment_play_count: "state.library.update_track_play_count(&id,
\* count).await; Ok(Json(count))".  update_track_play_count is not in
\* library.rs: as the specification describes it, it sets the in-memory counter
\* of the indexed track to count.
update_track_play_count(r) ==
    /\ st_pc[r] = "reconcile"
    /\ play_count' = IF Positions(tracks, st_call[r].id) = {} THEN play_count
                     ELSE [play_count EXCEPT ![st_call[r].id] = st_call[r].count]
    /\ PlayReturn(r, PlayOk(st_call[r].count))
    /\ UNCHANGED <<track_stats, plVars, libVars, stream_out, lyricVars, extVars>>

\* a scanned library of two audio files and a file that is none; no track played
StatsInit ==
    /\ library_path = DefaultRoot
    /\ disk = [p \in Paths |-> IF p <= 2 THEN AudioFile(NoTag) ELSE OtherFile]
    /\ tracks = IndexOf(disk, {}, NumEntries)
    /\ MutIdle
    /\ ScanIdle
    /\ lib_read = NoRead
    /\ PlQuiet
    /\ ServerQuiet

StatsNext ==
    \/ \E r \in Players, id \in LibraryIds : play_begin(r, id)
    \/ \E r \in Players, ok \in BOOLEAN : increment_play_count(r, ok)
    \/ \E r \in Players : update_track_play_count(r)

SpecStats == StatsInit /\ [][StatsNext]_vars

\* ------------------------------------- GET /stream/:id (src/src/server.rs)
\* A header value is a sequence of characters.
BytesPrefix == <<"b", "y", "t", "e", "s", "=">>
Digits == {"0", "1", "2", "3", "4", "5", "6", "7", "8", "9"}
DigitValue(c) ==
    CASE c = "0" -> 0 [] c = "1" -> 1 [] c = "2" -> 2 [] c = "3" -> 3 [] c = "4" -> 4
      [] c = "5" -> 5 [] c = "6" -> 6 [] c = "7" -> 7 [] c = "8" -> 8 [] c = "9" -> 9

\* range_str.starts_with("bytes=")
StartsWith(s, prefix) ==
    Len(s) >= Len(prefix) /\ SubSeq(s, 1, Len(prefix)) = prefix

\* range_part.split('-').collect(): the pieces between the separators
RECURSIVE Split(_, _)
Split(s, sep) ==
    IF \A i \in 1..Len(s) : s[i] # sep THEN <<s>>
    ELSE LET i == Min({k \in 1..Len(s) : s[k] = sep})
         IN  <<SubSeq(s, 1, i - 1)>> \o Split(SubSeq(s, i + 1, Len(s)), sep)

\* str::trim: without the white space at both ends
RECURSIVE Trim(_)
Trim(s) ==
    IF s # <<>> /\ Head(s) = " " THEN Trim(Tail(s))
    ELSE IF s # <<>> /\ s[Len(s)] = " " THEN Trim(SubSeq(s, 1, Len(s) - 1))
    ELSE s

RECURSIVE DecimalValue(_)
DecimalValue(s) ==
    IF s = <<>> THEN 0
    ELSE DecimalValue(SubSeq(s, 1, Len(s) - 1)) * 10 + DigitValue(s[Len(s)])

\* str::parse::<u64>().ok(): an optional "+", then one or more digits (the
\* values drawn here stay far below u64::MAX)
ParseU64(s) ==
    LET digits == IF s # <<>> /\ Head(s) = "+" THEN Tail(s) ELSE s
    IN  IF digits # <<>> /\ \A i \in 1..Len(digits) : digits[i] \in Digits
        THEN [ok |-> TRUE, value |-> DecimalValue(digits)]
        ELSE [ok |-> FALSE, value |-> 0]

\* Option<(u64, u64)>
NoRange == [some |-> FALSE, start |-> 0, end |-> 0]
SomeRange(start, end) == [some |-> TRUE, start |-> start, end |-> end]

\* "bytes=start-end" answered without the clamp of end
ClampEnd_Unclamped(end, file_size) == end

\* end.min(file_size - 1)
ClampEnd(end, file_size) == Min({end, file_size - 1})

\* "bytes=-n" with no check of the suffix length
SuffixRange_Unchecked(suffix_length, file_size) ==
    SomeRange(file_size - suffix_length, file_size - 1)

\* "bytes=-n": the last n bytes
SuffixRange(suffix_length, file_size) ==
    IF suffix_length = 0 \/ suffix_length > file_size THEN NoRange
    ELSE SomeRange(file_size - suffix_length, file_size - 1)

parse_range(range_str, file_size) ==
    IF ~StartsWith(range_str, BytesPrefix) THEN NoRange
    ELSE
      LET range_part == SubSeq(range_str, 7, Len(range_str))
          parts == Split(range_part, "-")
      IN  IF Len(parts) # 2 THEN NoRange
          ELSE
            LET start_str == Trim(parts[1])
                end_str == Trim(parts[2])
                first == ParseU64(start_str)
                second == ParseU64(end_str)
            IN  CASE start_str # <<>> /\ end_str # <<>> ->
                       IF ~first.ok \/ ~second.ok THEN NoRange
                       ELSE IF first.value > second.value \/ first.value >= file_size
                            THEN NoRange
                            ELSE SomeRange(first.value, ClampEnd(second.value, file_size))
                  [] start_str # <<>> /\ end_str = <<>> ->
                       IF ~first.ok THEN NoRange
                       ELSE IF first.value >= file_size THEN NoRange
                            ELSE SomeRange(first.value, file_size - 1)
                  [] start_str = <<>> /\ end_str # <<>> ->
                       IF ~second.ok THEN NoRange
                       ELSE SuffixRange(second.value, file_size)
                  [] OTHER -> NoRange

\* stream_range: 206 Partial Content
stream_range(start, end, total_size, io_ok) ==
    IF ~io_ok THEN StreamResponse(500, 0, <<>>)
    ELSE StreamResponse(206, end - start + 1, <<start, end, total_size>>)

\* a request that waits for its answer
StreamRequest(id, range, file_size, io_ok) ==
    [id |-> id, range |-> range, file_size |-> file_size, io_ok |-> io_ok,
     response |-> StreamResponse(0, 0, <<>>)]

\* handler stream_track on the waiting request; file_size is what
\* tokio::fs::metadata reports, io_ok whether the file opens and reads
stream_track ==
    /\ stream_out.id # NoId
    /\ stream_out.response.status = 0
    /\ LET id == stream_out.id
           range == stream_out.range
           file_size == stream_out.file_size
           io_ok == stream_out.io_ok
           r == parse_range(range.value, file_size)
           response ==
             IF Positions(tracks, id) = {} THEN StreamResponse(404, 0, <<>>)
             ELSE IF range.present /\ r.some
                  THEN stream_range(r.start, r.end, file_size, io_ok)
                  ELSE IF ~io_ok THEN StreamResponse(500, 0, <<>>)
                       ELSE StreamResponse(200, file_size, <<>>)
       IN  stream_out' = [stream_out EXCEPT !.response = response]
    /\ UNCHANGED <<plVars, libVars, statsVars, lyricVars, extVars>>

\* the header value "bytes=" followed by the characters of body
BytesEquals(body) == BytesPrefix \o body

\* the header values drawn: none, "bytes=" followed by a few characters, a few
\* characters alone, another prefix
RangeChars == {"0", "1", "-", "x", " ", "+"}
RangeHeaders ==
    {NoHeader, Header(<<"b", "y", "t", "e", "s", " ", "0", "-", "1">>)}
    \cup {Header(BytesEquals(body)) : body \in SeqsUpTo(RangeChars, MaxRangeLen)}
    \cup {Header(body) : body \in SeqsUpTo(RangeChars, 2)}
SampleHeaders ==
    {NoHeader, Header(BytesEquals(<<"0", "-", "1">>)), Header(BytesEquals(<<"x">>))}

\* the requests drawn: every header for the indexed track when the file reads,
\* some headers when it does not, or when the track is not indexed
StreamRequests ==
    {StreamRequest(Md5(Join(DefaultRoot, 1)), range, file_size, TRUE) :
        range \in RangeHeaders, file_size \in 0..MaxFileSize}
    \cup {StreamRequest(id, range, file_size, io_ok) :
            id \in {Md5(Join(DefaultRoot, 1)), Md5(Join(DefaultRoot, 2))},
            range \in SampleHeaders, file_size \in {0, 2}, io_ok \in BOOLEAN}

StreamInit ==
    /\ library_path = DefaultRoot
    /\ disk = [p \in Paths |-> IF p = 1 THEN AudioFile(NoTag) ELSE OtherFile]
    /\ tracks = IndexOf(disk, {}, NumEntries)
    /\ MutIdle
    /\ ScanIdle
    /\ lib_read = NoRead
    /\ PlQuiet
    /\ StatsQuiet
    /\ LyricsQuiet
    /\ ExtQuiet
    /\ stream_out \in StreamRequests

StreamNext == stream_track

SpecStream == StreamInit /\ [][StreamNext]_vars

\* ------------------------------------------ lyrics (src/src/lyrics.rs)
\* Strings are sequences of characters.
Whitespace == {" ", "\n"}
Uppercase == [c \in {"L", "R", "C", "W", "O", "D"} |->
                CASE c = "L" -> "l" [] c = "R" -> "r" [] c = "C" -> "c"
                  [] c = "W" -> "w" [] c = "O" -> "o" [] c = "D" -> "d"]

\* str::to_lowercase
to_lowercase(s) ==
    [i \in 1..Len(s) |-> IF s[i] \in DOMAIN Uppercase THEN Uppercase[s[i]] ELSE s[i]]

\* str::contains
contains(s, pat) ==
    \E i \in 1..(Len(s) - Len(pat) + 1) : SubSeq(s, i, i + Len(pat) - 1) = pat

\* LyricFormat::as_str
as_str(format) ==
    CASE format = "Plain" -> <<"p", "l", "a", "i", "n">>
      [] format = "Lrc" -> <<"l", "r", "c">>
      [] format = "LrcWord" -> <<"l", "r", "c", "_", "w", "o", "r", "d">>

\* LyricFormat::from_str with no arm for "lrc_word"
from_str_NoUnderscore(s) ==
    LET lower == to_lowercase(s)
    IN  CASE lower = <<"l", "r", "c">> -> "Lrc"
          [] lower \in {<<"l", "r", "c", "w", "o", "r", "d">>,
                        <<"w", "o", "r", "d">>} -> "LrcWord"
          [] OTHER -> "Plain"

\* LyricFormat::from_str
from_str(s) ==
    LET lower == to_lowercase(s)
    IN  CASE lower = <<"l", "r", "c">> -> "Lrc"
          [] lower \in {<<"l", "r", "c", "_", "w", "o", "r", "d">>,
                        <<"l", "r", "c", "w", "o", "r", "d">>,
                        <<"w", "o", "r", "d">>,
                        <<"e", "x", "t", "e", "n", "d", "e", "d">>} -> "LrcWord"
          [] OTHER -> "Plain"

\* A regex is the sequence of its items: a class of characters ("digit": \d,
\* "nonspace": \S, or the literal ch) repeated min to max times (max 0: any
\* number of times).
Lit(ch) == [class |-> "lit", ch |-> ch, min |-> 1, max |-> 1]
Rep(class, min, max) == [class |-> class, ch |-> "", min |-> min, max |-> max]
InClass(c, item) ==
    CASE item.class = "lit" -> c = item.ch
      [] item.class = "digit" -> c \in Digits
      [] item.class = "nonspace" -> c \notin Whitespace

\* the positions after a match of the items re that starts at position i of s
RECURSIVE MatchEnds(_, _, _)
MatchEnds(re, s, i) ==
    IF re = <<>> THEN {i}
    ELSE LET item == Head(re)
             most == IF item.max = 0 THEN Len(s) - i + 1
                     ELSE Min({item.max, Len(s) - i + 1})
             runs == {n \in item.min..most :
                        \A k \in i..(i + n - 1) : InClass(s[k], item)}
         IN  UNION {MatchEnds(Tail(re), s, i + n) : n \in runs}

\* Regex::is_match of an alternation of item sequences
is_match(alternatives, s) ==
    \E re \in alternatives, i \in 1..(Len(s) + 1) : MatchEnds(re, s, i) # {}

\* r"\S*\(\d+,\d+\)": a group of timings with or without text before it
word_timing_regex_NoRun ==
    {<<Lit("("), Rep("digit", 1, 0), Lit(","), Rep("digit", 1, 0), Lit(")")>>}

\* r"\S+\(\d+,\d+\)"
word_timing_regex ==
    {<<Rep("nonspace", 1, 0), Lit("("), Rep("digit", 1, 0), Lit(","),
       Rep("digit", 1, 0), Lit(")")>>}

\* r"\[\d+:\d{2}\.\d{2,3}\]|\[\d+,\d+\]"
lrc_regex ==
    {<<Lit("["), Rep("digit", 1, 0), Lit(":"), Rep("digit", 2, 2), Lit("."),
       Rep("digit", 2, 3), Lit("]")>>,
     <<Lit("["), Rep("digit", 1, 0), Lit(","), Rep("digit", 1, 0), Lit("]")>>}

\* LyricFormat::detect_from_content
detect_from_content(content) ==
    IF /\ contains(content, <<"(">>) /\ contains(content, <<",">>)
       /\ contains(content, <<")">>)
       /\ is_match(word_timing_regex, content)
    THEN "LrcWord"
    ELSE IF /\ contains(content, <<"[">>)
            /\ contains(content, <<":">>) \/ contains(content, <<",">>)
            /\ is_match(lrc_regex, content)
         THEN IF is_match(word_timing_regex, content) THEN "LrcWord" ELSE "Lrc"
         ELSE "Plain"

\* upload_lyrics, "let format = if let Some(fmt) = upload.format { .. } else { .. }"
UploadFormat(upload) ==
    IF upload.has_format THEN from_str(upload.format)
    ELSE IF \/ contains(upload.content, <<"[", "0", "0", ":">>)
            \/ contains(upload.content, <<"[", "0", "1", ":">>)
         THEN "Lrc"
         ELSE "Plain"

\* "INSERT INTO lyrics .. VALUES (..)" on a table without the primary key
InsertLyric_NoPrimaryKey(rows, track_id, content, format, language, source) ==
    rows \cup {Lyric(track_id, content, format, language, source)}

\* "INSERT INTO lyrics .. VALUES (..) ON CONFLICT(track_id) DO UPDATE SET
\*  content = excluded.content, format = .., language = .., source = .."
UpsertLyric(rows, track_id, content, format, language, source) ==
    {r \in rows : r.track_id # track_id}
        \cup {Lyric(track_id, content, format, language, source)}

\* "SELECT .. FROM lyrics WHERE track_id = ?"
SelectLyric(rows, track_id) == {r \in rows : r.track_id = track_id}

\* "DELETE FROM lyrics WHERE track_id = ?"
DeleteLyric(rows, track_id) == {r \in rows : r.track_id # track_id}

\* "SELECT COUNT(*) FROM lyrics WHERE track_id = ?"
CountLyrics(rows, track_id) == Cardinality(SelectLyric(rows, track_id))

\* LyricDatabase::save_lyric
save_lyric(track_id, content, format, language, source) ==
    /\ lyrics' = UpsertLyric(lyrics, track_id, content, as_str(format),
                             language, source)
    /\ ly_out' = LyricReturn("save_lyric", track_id, 200, TRUE,
                             Lyric(track_id, content, format, language, source))
    /\ UNCHANGED <<ly_in, plVars, libVars, statsVars, stream_out, extVars>>

\* LyricDatabase::get_lyric: fetch_optional, the row mapped to a Lyric
get_lyric(track_id) ==
    /\ IF SelectLyric(lyrics, track_id) = {}
       THEN ly_out' = LyricReturn("get_lyric", track_id, 200, FALSE, NoLyric)
       ELSE \E row \in SelectLyric(lyrics, track_id) :
              ly_out' = LyricReturn("get_lyric", track_id, 200, TRUE,
                                    [row EXCEPT !.format = from_str(row.format)])
    /\ UNCHANGED <<lyrics, ly_in, plVars, libVars, statsVars, stream_out, extVars>>

\* LyricDatabase::delete_lyric
delete_lyric(track_id) ==
    /\ lyrics' = DeleteLyric(lyrics, track_id)
    /\ ly_out' = LyricReturn("delete_lyric", track_id, 200,
                             RowsAffected(lyrics, lyrics') > 0, NoLyric)
    /\ UNCHANGED <<ly_in, plVars, libVars, statsVars, stream_out, extVars>>

\* LyricDatabase::has_lyric
has_lyric(track_id) ==
    /\ ly_out' = LyricReturn("has_lyric", track_id, 200,
                             CountLyrics(lyrics, track_id) > 0, NoLyric)
    /\ UNCHANGED <<lyrics, ly_in, plVars, libVars, statsVars, stream_out, extVars>>

\* PUT /lyrics/:id: the track looked up, the format determined, the lyric
\* saved and the has_lyrics flag of the track set
upload_lyrics ==
    /\ ly_in.id # NoId
    /\ ly_out.op = "none"
    /\ IF Positions(tracks, ly_in.id) = {}
       THEN /\ ly_out' = LyricReturn("upload_lyrics", ly_in.id, 404, FALSE, NoLyric)
            /\ UNCHANGED <<lyrics, tracks>>
       ELSE LET format == UploadFormat(ly_in)
            IN  /\ lyrics' = UpsertLyric(lyrics, ly_in.id, ly_in.content,
                                         as_str(format), ly_in.language, ly_in.source)
                /\ tracks' = [tracks EXCEPT ![Min(Positions(tracks, ly_in.id))].has_lyrics
                                               = TRUE]
                /\ ly_out' = LyricReturn("upload_lyrics", ly_in.id, 200, TRUE,
                                Lyric(ly_in.id, ly_in.content, format,
                                      ly_in.language, ly_in.source))
    /\ UNCHANGED <<ly_in, disk, mutVars, scanVars, lib_read, library_path,
                   plVars, statsVars, stream_out, extVars>>

\* the format of a fetched lyric: "LyricFormat::detect_from_content(&content)"
detect_format ==
    /\ ly_in.id # NoId
    /\ ly_out.op = "none"
    /\ ly_out' = LyricReturn("detect_from_content", ly_in.id, 200, TRUE,
                     Lyric(ly_in.id, ly_in.content,
                           detect_from_content(ly_in.content), None, None))
    /\ UNCHANGED <<lyrics, ly_in, plVars, libVars, statsVars, stream_out, extVars>>

\* the pieces lyric contents are made of
Fragments ==
    { <<"a">>, <<" ">>, <<"(", "0", ",", "0", ")">>, <<"(", "0", ",">>,
      <<"0", ")">>, <<"[", "0", ",", "0", "]">>, <<"[", "0", ":">>,
      <<"[", "0", "0", ":">>, <<"0", "0", ".", "0", "0", "]">>,
      <<"0", "0", ".", "0", "0", "0", "]">>, <<"0", ".", "0", "0", "]">>,
      <<"0", "0", ".", "0", "0", "0", "0", "]">> }

RECURSIVE Concat(_)
Concat(pieces) == IF pieces = <<>> THEN <<>> ELSE Head(pieces) \o Concat(Tail(pieces))

\* the contents of up to MaxFragments pieces
Contents == {Concat(pieces) : pieces \in SeqsUpTo(Fragments, MaxFragments)}

\* the formats an upload declares
DeclaredFormats ==
    { <<"l", "r", "c">>, <<"L", "R", "C">>, <<"l", "r", "c", "_", "w", "o", "r", "d">>,
      <<"W", "O", "R", "D">>, <<"p", "l", "a", "i", "n">>, <<"x">> }

\* the uploads for the indexed track, with and without a declared format, and
\* an upload for a track that is not indexed
Uploads ==
    {LyricUpload(Md5(Join(DefaultRoot, 1)), content, FALSE, <<>>, None, None) :
        content \in Contents}
    \cup {LyricUpload(Md5(Join(DefaultRoot, 1)), <<"a">>, TRUE, format, None, source) :
            format \in DeclaredFormats, source \in {None} \cup Strings}
    \cup {LyricUpload(Md5(Join(DefaultRoot, 2)), <<"a">>, FALSE, <<>>, None, None)}

\* one indexed track, one upload or fetched content to handle
DetectInit ==
    /\ library_path = DefaultRoot
    /\ disk = [p \in Paths |-> IF p = 1 THEN AudioFile(NoTag) ELSE OtherFile]
    /\ tracks = IndexOf(disk, {}, NumEntries)
    /\ MutIdle
    /\ ScanIdle
    /\ lib_read = NoRead
    /\ PlQuiet
    /\ StatsQuiet
    /\ stream_out = NotStreamed
    /\ lyrics = {}
    /\ ly_in \in Uploads
    /\ ly_out = NoLyricReturn
    /\ ExtQuiet

DetectNext ==
    \/ upload_lyrics
    \/ detect_format

SpecDetect == DetectInit /\ [][DetectNext]_vars

\* the contents the lyric database is given
SavedContents == {<<"a">>, <<"[", "0", ",", "0", "]">>}

\* the lyric database on its own: one statement per call
LyricsNext ==
    \/ \E id \in {Md5(Join(DefaultRoot, p)) : p \in 1..2}, content \in SavedContents,
          format \in LyricFormats, language \in {None} \cup Strings :
           save_lyric(id, content, format, language, None)
    \/ \E id \in {Md5(Join(DefaultRoot, p)) : p \in 1..2} : get_lyric(id)
    \/ \E id \in {Md5(Join(DefaultRoot, p)) : p \in 1..2} : delete_lyric(id)
    \/ \E id \in {Md5(Join(DefaultRoot, p)) : p \in 1..2} : has_lyric(id)

\* no playlist, an empty library, no lyric
LyricsInit == LibEmpty /\ PlQuiet

SpecLyrics == LyricsInit /\ [][LyricsNext]_vars

\* the server on an empty folder with new databases, no request made
ServerIdle ==
    /\ library_path = DefaultRoot
    /\ tracks = <<>>
    /\ disk = [p \in Paths |-> OtherFile]
    /\ MutIdle
    /\ ScanIdle
    /\ lib_read = NoRead
    /\ PlQuiet
    /\ StatsQuiet
    /\ stream_out = NotStreamed
    /\ LyricsQuiet

\* --------------------------- lyric providers (src/src/lyrics/fetcher.rs)
\* "if result.confidence > 0.5", in tenths
ConfidenceThreshold == 5

\* NetEaseLyricsProvider::search, the confidence of a result in tenths: the
\* base 0.5, 0.3 more for a title match, 0.2 more for an artist match
confidence(title_match, artist_match) ==
    Min({10, 5 + (IF title_match THEN 3 ELSE 0) + (IF artist_match THEN 2 ELSE 0)})

\* the confidences of the results: the base and that of a title match
Confidences == {confidence(FALSE, FALSE), confidence(TRUE, FALSE)}

\* what the API behind a provider answers: whether search succeeds, the
\* confidences of its results in order (the id of a result is its position),
\* whether fetch succeeds
ProviderBehaviours ==
    {[search_ok |-> TRUE, results |-> r, fetch_ok |-> f] :
        r \in SeqsUpTo(Confidences, MaxResults), f \in BOOLEAN}
    \cup {[search_ok |-> FALSE, results |-> <<>>, fetch_ok |-> TRUE]}

\* Ok(results) of search
SearchResults(behaviour) ==
    [i \in 1..Len(behaviour.results) |-> LyricsSearchResult(i, behaviour.results[i])]

\* "results.into_iter().max_by(|a, b| a.confidence.partial_cmp(&b.confidence))":
\* the last of the results of the greatest confidence, None without results
max_by(results) ==
    IF results = <<>> THEN NoSearchResult
    ELSE results[Max({i \in 1..Len(results) :
                        \A j \in 1..Len(results) :
                            results[j].confidence <= results[i].confidence})]

\* "if result.confidence >= 0.5"
AboveThreshold_Inclusive(value) == value >= ConfidenceThreshold

\* "if result.confidence > 0.5"
AboveThreshold(value) == value > ConfidenceThreshold

\* fetch_lyrics, "Err(e) => return Err(e)"
ProviderFailed_Propagate(i) == [return |-> TRUE, value |-> FetchReturn("err", i, 0)]

\* fetch_lyrics, "Err(e) => { tracing::warn!(..); continue; }"
ProviderFailed(i) == [return |-> FALSE, value |-> NoFetchReturn]

\* fetch_lyrics returns
FetchDone(value) ==
    /\ fx_out' = value
    /\ fx_pc' = "done"
    /\ fx_i' = 0
    /\ fx_best' = NoSearchResult

\* "continue", or the end of the loop: "Ok(None)"
Continue ==
    IF fx_i = Len(providers)
    THEN FetchDone(FetchReturn("ok_none", 0, 0))
    ELSE /\ fx_i' = fx_i + 1
         /\ fx_pc' = "search"
         /\ fx_best' = NoSearchResult
         /\ UNCHANGED fx_out

\* search_and_fetch returned Err to fetch_lyrics
Failed ==
    IF ProviderFailed(fx_i).return
    THEN FetchDone(ProviderFailed(fx_i).value)
    ELSE Continue

\* LyricsAggregator::fetch_lyrics is called: "for provider in &self.providers"
fetch_lyrics ==
    /\ fx_pc = "idle"
    /\ IF providers = <<>>
       THEN FetchDone(FetchReturn("ok_none", 0, 0))
       ELSE /\ fx_pc' = "search"
            /\ fx_i' = 1
            /\ UNCHANGED <<fx_best, fx_out>>
    /\ UNCHANGED <<providers, fx_log, outsideFetch>>

\* search_and_fetch of the provider: "self.search(query).await?", the best
\* match picked and compared with the threshold
search ==
    /\ fx_pc = "search"
    /\ fx_log' = Append(fx_log, [call |-> "search", provider |-> fx_i, id |-> 0])
    /\ LET behaviour == providers[fx_i]
           best_match == max_by(SearchResults(behaviour))
       IN  IF ~behaviour.search_ok
           THEN Failed
           ELSE IF best_match # NoSearchResult /\ AboveThreshold(best_match.confidence)
                THEN /\ fx_pc' = "fetch"
                     /\ fx_best' = best_match
                     /\ UNCHANGED <<fx_i, fx_out>>
                ELSE Continue
    /\ UNCHANGED <<providers, outsideFetch>>

\* search_and_fetch of the provider: "Ok(Some(self.fetch(&result.id).await?))"
fetch ==
    /\ fx_pc = "fetch"
    /\ fx_log' = Append(fx_log, [call |-> "fetch", provider |-> fx_i, id |-> fx_best.id])
    /\ IF providers[fx_i].fetch_ok
       THEN FetchDone(FetchReturn("ok_some", fx_i, fx_best.id))
       ELSE Failed
    /\ UNCHANGED <<providers, outsideFetch>>

\* an aggregator of up to MaxProviders providers, in registration order
FetchInit ==
    /\ ServerIdle
    /\ DesQuiet
    /\ MetaQuiet
    /\ GroupQuiet
    /\ LockQuiet
    /\ RaceQuiet
    /\ PosQuiet
    /\ providers \in SeqsUpTo(ProviderBehaviours, MaxProviders)
    /\ fx_pc = "idle"
    /\ fx_i = 0
    /\ fx_best = NoSearchResult
    /\ fx_log = <<>>
    /\ fx_out = NoFetchReturn

FetchNext ==
    \/ fetch_lyrics
    \/ search
    \/ fetch

SpecFetch == FetchInit /\ [][FetchNext]_vars

\* --------- the Triple-DES of QQ Music (src/music-search-rs/src/qqmusic/decrypt.rs)
\* A u32 or u8 is the set of the positions of its one bits, position 0 the
\* least significant: | is union, & intersection, ^ the symmetric
\* difference, and a shift drops the bits that leave the width.
Shl(a, n, width) == {p + n : p \in a} \cap (0..(width - 1))
Shr(a, n) == {p - n : p \in {q \in a : q >= n}}
Xor(a, b) == (a \ b) \cup (b \ a)
Bits(n, width) == {p \in 0..(width - 1) : p < 31 /\ (n \div (2 ^ p)) % 2 = 1}
RECURSIVE Value(_)
Value(a) == IF a = {} THEN 0 ELSE LET p == Max(a) IN 2 ^ p + Value(a \ {p})
\* a byte string as the array of its bytes
Bytes(numbers) == [i \in 1..Len(numbers) |-> Bits(numbers[i], 8)]
Numbers(bytes) == [i \in 1..Len(bytes) |-> Value(bytes[i])]

ENCRYPT == 1
DECRYPT == 0

\* b"!@#)(*$%123ZXC!@!@#)(NHL"
QQ_KEY ==
    Bytes(<<33, 64, 35, 41, 40, 42, 36, 37, 49, 50, 51, 90, 88, 67, 33, 64,
            33, 64, 35, 41, 40, 78, 72, 76>>)

\* arrays are indexed from 0 in the source: a[i] is At(a, i)
At(a, i) == a[i + 1]

bitnum(a, b, c) ==
    Shl(Shr(At(a, (b \div 32) * 4 + 3 - ((b % 32) \div 8)), 7 - (b % 8)) \cap {0}, c, 32)

bitnumintr(a, b, c) == Shl(Shr(a, 31 - b) \cap {0}, c, 32) \cap (0..7)

bitnumintl(a, b, c) == Shr(Shl(a, b, 32) \cap {31}, c)

sboxbit(a) ==
    Value((a \cap {5}) \cup Shr(a \cap (0..4), 1) \cup Shl(a \cap {0}, 4, 8))

SBOX1 ==
    <<14, 4, 13, 1, 2, 15, 11, 8, 3, 10, 6, 12, 5, 9, 0, 7,
      0, 15, 7, 4, 14, 2, 13, 1, 10, 6, 12, 11, 9, 5, 3, 8,
      4, 1, 14, 8, 13, 6, 2, 11, 15, 12, 9, 7, 3, 10, 5, 0,
      15, 12, 8, 2, 4, 9, 1, 7, 5, 11, 3, 14, 10, 0, 6, 13>>

\* the second S-box of the DES standard (14 where the source has a second 15)
SBOX2_Standard ==
    <<15, 1, 8, 14, 6, 11, 3, 4, 9, 7, 2, 13, 12, 0, 5, 10,
      3, 13, 4, 7, 15, 2, 8, 14, 12, 0, 1, 10, 6, 9, 11, 5,
      0, 14, 7, 11, 10, 4, 13, 1, 5, 8, 12, 6, 9, 3, 2, 15,
      13, 8, 10, 1, 3, 15, 4, 2, 11, 6, 7, 12, 0, 5, 14, 9>>

SBOX2 ==
    <<15, 1, 8, 14, 6, 11, 3, 4, 9, 7, 2, 13, 12, 0, 5, 10,
      3, 13, 4, 7, 15, 2, 8, 15, 12, 0, 1, 10, 6, 9, 11, 5,
      0, 14, 7, 11, 10, 4, 13, 1, 5, 8, 12, 6, 9, 3, 2, 15,
      13, 8, 10, 1, 3, 15, 4, 2, 11, 6, 7, 12, 0, 5, 14, 9>>

SBOX3 ==
    <<10, 0, 9, 14, 6, 3, 15, 5, 1, 13, 12, 7, 11, 4, 2, 8,
      13, 7, 0, 9, 3, 4, 6, 10, 2, 8, 5, 14, 12, 11, 15, 1,
      13, 6, 4, 9, 8, 15, 3, 0, 11, 1, 2, 12, 5, 10, 14, 7,
      1, 10, 13, 0, 6, 9, 8, 7, 4, 15, 14, 3, 11, 5, 2, 12>>

SBOX4 ==
    <<7, 13, 14, 3, 0, 6, 9, 10, 1, 2, 8, 5, 11, 12, 4, 15,
      13, 8, 11, 5, 6, 15, 0, 3, 4, 7, 2, 12, 1, 10, 14, 9,
      10, 6, 9, 0, 12, 11, 7, 13, 15, 1, 3, 14, 5, 2, 8, 4,
      3, 15, 0, 6, 10, 10, 13, 8, 9, 4, 5, 11, 12, 7, 2, 14>>

SBOX5 ==
    <<2, 12, 4, 1, 7, 10, 11, 6, 8, 5, 3, 15, 13, 0, 14, 9,
      14, 11, 2, 12, 4, 7, 13, 1, 5, 0, 15, 10, 3, 9, 8, 6,
      4, 2, 1, 11, 10, 13, 7, 8, 15, 9, 12, 5, 6, 3, 0, 14,
      11, 8, 12, 7, 1, 14, 2, 13, 6, 15, 0, 9, 10, 4, 5, 3>>

SBOX6 ==
    <<12, 1, 10, 15, 9, 2, 6, 8, 0, 13, 3, 4, 14, 7, 5, 11,
      10, 15, 4, 2, 7, 12, 9, 5, 6, 1, 13, 14, 0, 11, 3, 8,
      9, 14, 15, 5, 2, 8, 12, 3, 7, 0, 4, 10, 1, 13, 11, 6,
      4, 3, 2, 12, 9, 5, 15, 10, 11, 14, 1, 7, 6, 0, 8, 13>>

SBOX7 ==
    <<4, 11, 2, 14, 15, 0, 8, 13, 3, 12, 9, 7, 5, 10, 6, 1,
      13, 0, 11, 7, 4, 9, 1, 10, 14, 3, 5, 12, 2, 15, 8, 6,
      1, 4, 11, 13, 12, 3, 7, 14, 10, 15, 6, 8, 0, 5, 9, 2,
      6, 11, 13, 8, 1, 4, 10, 7, 9, 5, 0, 15, 14, 2, 3, 12>>

SBOX8 ==
    <<13, 2, 8, 4, 6, 15, 11, 1, 10, 9, 3, 14, 5, 0, 12, 7,
      1, 15, 13, 8, 10, 3, 7, 4, 12, 5, 6, 11, 0, 14, 9, 2,
      7, 11, 4, 1, 9, 12, 14, 2, 0, 6, 10, 13, 15, 3, 5, 8,
      2, 1, 14, 7, 4, 10, 8, 13, 15, 12, 9, 0, 3, 5, 6, 11>>

key_rnd_shift == <<1, 1, 2, 2, 2, 2, 2, 2, 1, 2, 2, 2, 2, 2, 2, 1>>

key_perm_c ==
    <<56, 48, 40, 32, 24, 16, 8, 0, 57, 49, 41, 33, 25, 17,
      9, 1, 58, 50, 42, 34, 26, 18, 10, 2, 59, 51, 43, 35>>

key_perm_d ==
    <<62, 54, 46, 38, 30, 22, 14, 6, 61, 53, 45, 37, 29, 21,
      13, 5, 60, 52, 44, 36, 28, 20, 12, 4, 27, 19, 11, 3>>

key_compression ==
    <<13, 16, 10, 23, 0, 4, 2, 27, 14, 5, 20, 9,
      22, 18, 11, 3, 25, 7, 15, 6, 26, 19, 12, 1,
      40, 51, 30, 36, 46, 54, 29, 39, 50, 44, 32, 47,
      43, 48, 38, 55, 33, 52, 45, 41, 49, 35, 28, 31>>

\* key_schedule, "let to_gen = i", the round keys in the same order either way
to_gen_Forward(mode, i) == i

\* key_schedule, "let to_gen = if mode == DECRYPT { 15 - i } else { i }"
to_gen(mode, i) == IF mode = DECRYPT THEN 15 - i ELSE i

\* key_schedule, "c = ((c << shift) | (c >> (28 - shift))) & 0xfffffff0"
RotateHalf(c, shift) == (Shl(c, shift, 32) \cup Shr(c, 28 - shift)) \cap (4..31)

\* key_schedule, c (or d) at the end of round i of the loop
RECURSIVE KeyHalf(_, _)
KeyHalf(c, i) ==
    RotateHalf(IF i = 0 THEN c ELSE KeyHalf(c, i - 1), At(key_rnd_shift, i))

\* key_schedule, schedule[to_gen] of a round: the two loops over j
RoundKey(c, d) ==
    [byte \in 1..6 |->
        UNION {IF j < 24
               THEN bitnumintr(c, At(key_compression, j), 7 - (j % 8))
               ELSE bitnumintr(d, At(key_compression, j) - 27, 7 - (j % 8)) :
               j \in {k \in 0..47 : k \div 8 = byte - 1}}]

key_schedule(key, mode) ==
    LET c == UNION {bitnum(key, At(key_perm_c, i), 31 - i) : i \in 0..27}
        d == UNION {bitnum(key, At(key_perm_d, i), 31 - i) : i \in 0..27}
    IN  [g \in 1..16 |->
            LET i == CHOOSE k \in 0..15 : to_gen(mode, k) = g - 1
            IN  RoundKey(KeyHalf(c, i), KeyHalf(d, i))]

\* ip, the bits of the input that make state[0] and state[1], from bit 31 down
ip_state0 ==
    <<57, 49, 41, 33, 25, 17, 9, 1, 59, 51, 43, 35, 27, 19, 11, 3,
      61, 53, 45, 37, 29, 21, 13, 5, 63, 55, 47, 39, 31, 23, 15, 7>>

ip_state1 ==
    <<56, 48, 40, 32, 24, 16, 8, 0, 58, 50, 42, 34, 26, 18, 10, 2,
      60, 52, 44, 36, 28, 20, 12, 4, 62, 54, 46, 38, 30, 22, 14, 6>>

ip(input) ==
    <<UNION {bitnum(input, At(ip_state0, i), 31 - i) : i \in 0..31},
      UNION {bitnum(input, At(ip_state1, i), 31 - i) : i \in 0..31}>>

\* inv_ip, per output byte the bits taken in turn from state[1] and state[0],
\* from bit 7 of the byte down
inv_ip_bits ==
    <<<<4, 4, 12, 12, 20, 20, 28, 28>>,
      <<5, 5, 13, 13, 21, 21, 29, 29>>,
      <<6, 6, 14, 14, 22, 22, 30, 30>>,
      <<7, 7, 15, 15, 23, 23, 31, 31>>,
      <<0, 0, 8, 8, 16, 16, 24, 24>>,
      <<1, 1, 9, 9, 17, 17, 25, 25>>,
      <<2, 2, 10, 10, 18, 18, 26, 26>>,
      <<3, 3, 11, 11, 19, 19, 27, 27>>>>

inv_ip(state) ==
    [byte \in 1..8 |->
        UNION {bitnumintr(At(state, (i + 1) % 2), At(inv_ip_bits[byte], i), 7 - i) :
               i \in 0..7}]

\* des_f, the final permutation: the bit moved to position 0, 1, .. from the left
des_f_permutation ==
    <<15, 6, 19, 20, 28, 11, 27, 16, 0, 14, 22, 25, 4, 17, 30, 9,
      1, 7, 23, 13, 31, 26, 2, 8, 18, 12, 29, 5, 21, 10, 3, 24>>

des_f(state, key) ==
    LET t1 == bitnumintl(state, 31, 0) \cup Shr(state \cap (28..31), 1)
                \cup bitnumintl(state, 4, 5) \cup bitnumintl(state, 3, 6)
                \cup Shr(state \cap (24..27), 3) \cup bitnumintl(state, 8, 11)
                \cup bitnumintl(state, 7, 12) \cup Shr(state \cap (20..23), 5)
                \cup bitnumintl(state, 12, 17) \cup bitnumintl(state, 11, 18)
                \cup Shr(state \cap (16..19), 7) \cup bitnumintl(state, 16, 23)
        t2 == bitnumintl(state, 15, 0) \cup Shl(state \cap (12..15), 15, 32)
                \cup bitnumintl(state, 20, 5) \cup bitnumintl(state, 19, 6)
                \cup Shl(state \cap (8..11), 13, 32) \cup bitnumintl(state, 24, 11)
                \cup bitnumintl(state, 23, 12) \cup Shl(state \cap (4..7), 11, 32)
                \cup bitnumintl(state, 28, 17) \cup bitnumintl(state, 27, 18)
                \cup Shl(state \cap (0..3), 9, 32) \cup bitnumintl(state, 0, 23)
        lrgstate == <<Xor(Shr(t1, 24) \cap (0..7), At(key, 0)),
                      Xor(Shr(t1, 16) \cap (0..7), At(key, 1)),
                      Xor(Shr(t1, 8) \cap (0..7), At(key, 2)),
                      Xor(Shr(t2, 24) \cap (0..7), At(key, 3)),
                      Xor(Shr(t2, 16) \cap (0..7), At(key, 4)),
                      Xor(Shr(t2, 8) \cap (0..7), At(key, 5))>>
        boxed ==
            Shl(Bits(At(SBOX1, sboxbit(Shr(At(lrgstate, 0), 2))), 32), 28, 32)
            \cup Shl(Bits(At(SBOX2, sboxbit(Shl(At(lrgstate, 0) \cap (0..1), 4, 8)
                                            \cup Shr(At(lrgstate, 1), 4))), 32), 24, 32)
            \cup Shl(Bits(At(SBOX3, sboxbit(Shl(At(lrgstate, 1) \cap (0..3), 2, 8)
                                            \cup Shr(At(lrgstate, 2), 6))), 32), 20, 32)
            \cup Shl(Bits(At(SBOX4, sboxbit(At(lrgstate, 2) \cap (0..5))), 32), 16, 32)
            \cup Shl(Bits(At(SBOX5, sboxbit(Shr(At(lrgstate, 3), 2))), 32), 12, 32)
            \cup Shl(Bits(At(SBOX6, sboxbit(Shl(At(lrgstate, 3) \cap (0..1), 4, 8)
                                            \cup Shr(At(lrgstate, 4), 4))), 32), 8, 32)
            \cup Shl(Bits(At(SBOX7, sboxbit(Shl(At(lrgstate, 4) \cap (0..3), 2, 8)
                                            \cup Shr(At(lrgstate, 5), 6))), 32), 4, 32)
            \cup Bits(At(SBOX8, sboxbit(At(lrgstate, 5) \cap (0..5))), 32)
    IN  UNION {bitnumintl(boxed, At(des_f_permutation, i), i) : i \in 0..31}

\* des_crypt, the body of "for idx in 0..15": the halves swapped
des_crypt_round(state, round_key) ==
    <<At(state, 1), Xor(des_f(At(state, 1), round_key), At(state, 0))>>

\* des_crypt, the last round without the swap, and inv_ip
des_crypt_last(state, round_key) ==
    inv_ip(<<Xor(des_f(At(state, 1), round_key), At(state, 0)), At(state, 1)>>)

triple_des_key_setup(key, mode) ==
    IF mode = ENCRYPT
    THEN <<key_schedule(SubSeq(key, 1, 8), mode),
           key_schedule(SubSeq(key, 9, 16), DECRYPT),
           key_schedule(SubSeq(key, 17, 24), mode)>>
    ELSE <<key_schedule(SubSeq(key, 17, 24), mode),
           key_schedule(SubSeq(key, 9, 16), ENCRYPT),
           key_schedule(SubSeq(key, 1, 8), mode)>>

\* triple_des_crypt of des_in.block has begun: ip of the first des_crypt
triple_des_crypt(stage, mode, input) ==
    des_out' = [des_out EXCEPT !.stage = stage, !.mode = mode, !.pass = 0,
                               !.idx = 0, !.state = ip(input)]

\* the round key of the des_crypt under way: key[pass][idx] of the schedule
\* that triple_des_key_setup made for the mode
round_key == At(At(triple_des_key_setup(des_in.key, des_out.mode), des_out.pass), des_out.idx)

Running == des_out.stage \in {"decrypting", "encrypting"}

\* decrypt_lyrics, one 8-byte chunk: the schedule set up for DECRYPT and the
\* block given to triple_des_crypt
triple_des_decrypt ==
    /\ des_out.stage = "none"
    /\ des_in.block # NoBytes
    /\ triple_des_crypt("decrypting", DECRYPT, des_in.block)
    /\ UNCHANGED <<des_in, outsideDes>>

\* the decrypted block given to triple_des_crypt with the schedule of the
\* same key set up for ENCRYPT
triple_des_encrypt ==
    /\ des_out.stage = "decrypted"
    /\ triple_des_crypt("encrypting", ENCRYPT, des_out.decrypted)
    /\ UNCHANGED <<des_in, outsideDes>>

\* des_crypt, one of the rounds 0..14
des_crypt_loop ==
    /\ Running
    /\ des_out.idx < 15
    /\ des_out' = [des_out EXCEPT !.idx = @ + 1,
                                  !.state = des_crypt_round(@, round_key)]
    /\ UNCHANGED <<des_in, outsideDes>>

\* des_crypt returns: its output goes to the next des_crypt of
\* triple_des_crypt, or is the output of triple_des_crypt after the third
des_crypt ==
    /\ Running
    /\ des_out.idx = 15
    /\ LET output == des_crypt_last(des_out.state, round_key)
       IN  des_out' =
             IF des_out.pass < 2
             THEN [des_out EXCEPT !.pass = @ + 1, !.idx = 0, !.state = ip(output)]
             ELSE IF des_out.stage = "decrypting"
             THEN [des_out EXCEPT !.stage = "decrypted", !.decrypted = output]
             ELSE [des_out EXCEPT !.stage = "encrypted", !.encrypted = output]
    /\ UNCHANGED <<des_in, outsideDes>>

\* the first block of the lyrics of test_decrypt_lyrics_debug
TestBlock == Bytes(<<0, 54, 127, 232, 229, 5, 66, 171>>)

\* the keys: the key of QQ Music, the key of zero bytes and a key of three
\* different parts
DesKeys ==
    {QQ_KEY,
     Bytes([i \in 1..24 |-> 0]),
     Bytes([i \in 1..24 |-> (i * 37 + (i \div 8) * 101) % 256])}

\* the blocks: the test block and the blocks with one byte that is not zero
DesBlocks ==
    {TestBlock}
    \cup {Bytes([i \in 1..8 |-> IF i = k THEN (v * 85) % 256 ELSE 0]) :
            k \in 1..8, v \in 0..(NumBlocks - 1)}

DesIdle ==
    [stage |-> "none", mode |-> DECRYPT, pass |-> 0, idx |-> 0,
     state |-> <<{}, {}>>, decrypted |-> NoBytes, encrypted |-> NoBytes]

DesInit ==
    /\ ServerIdle
    /\ FetchQuiet
    /\ MetaQuiet
    /\ GroupQuiet
    /\ LockQuiet
    /\ RaceQuiet
    /\ PosQuiet
    /\ des_in \in [key : DesKeys, block : DesBlocks]
    /\ des_out = DesIdle

DesNext ==
    \/ triple_des_decrypt
    \/ triple_des_encrypt
    \/ des_crypt_loop
    \/ des_crypt

SpecDes == DesInit /\ [][DesNext]_vars

\* ------------- metadata of a track, all its fields (src/src/library.rs)
\* The canonical fields of Track and TrackMetadataUpdate.
CanonicalFields ==
    {"title", "artist", "album", "album_artist", "genre", "year",
     "track_number", "disc_number", "composer", "comment"}

\* parse_audio_file, "match key": the keys of the tags that give a field
TagKeys(field) ==
    CASE field = "title" -> {"TITLE", "TIT2"}
      [] field = "artist" -> {"ARTIST", "TPE1"}
      [] field = "album" -> {"ALBUM", "TALB"}
      [] field = "album_artist" -> {"ALBUMARTIST", "TPE2"}
      [] field = "genre" -> {"GENRE", "TCON"}
      [] field = "year" -> {"DATE", "YEAR", "TDRC"}
      [] field = "track_number" -> {"TRACKNUMBER", "TRCK"}
      [] field = "disc_number" -> {"DISCNUMBER", "TPOS"}
      [] field = "composer" -> {"COMPOSER", "TCOM"}
      [] field = "comment" -> {"COMMENT", "COMM", "DESCRIPTION"}

\* write_flac_metadata: the Vorbis comment that set_vorbis sets for a field
VorbisKey(field) ==
    CASE field = "title" -> "TITLE"
      [] field = "artist" -> "ARTIST"
      [] field = "album" -> "ALBUM"
      [] field = "album_artist" -> "ALBUMARTIST"
      [] field = "genre" -> "GENRE"
      [] field = "year" -> "DATE"
      [] field = "track_number" -> "TRACKNUMBER"
      [] field = "disc_number" -> "DISCNUMBER"
      [] field = "composer" -> "COMPOSER"
      [] field = "comment" -> "COMMENT"

\* write_mp3_metadata: the ID3v2 frame behind set_title, set_artist, ..; the
\* frame of set_year is the choice of the id3 library (year_frame)
Id3Frame(field, year_frame) ==
    CASE field = "title" -> "TIT2"
      [] field = "artist" -> "TPE1"
      [] field = "album" -> "TALB"
      [] field = "album_artist" -> "TPE2"
      [] field = "genre" -> "TCON"
      [] field = "year" -> year_frame
      [] field = "track_number" -> "TRCK"
      [] field = "disc_number" -> "TPOS"
      [] field = "composer" -> "TCOM"
      [] field = "comment" -> "COMM"

\* i32 / u32 to_string of a number that is not negative: its decimal digits
DigitChar(d) == CHOOSE c \in Digits : DigitValue(c) = d
RECURSIVE to_string(_)
to_string(n) ==
    IF n < 10 THEN <<DigitChar(n)>> ELSE Append(to_string(n \div 10), DigitChar(n % 10))

\* "year.parse::<i32>()", "track_number.parse::<u32>()": Ok for an optional
\* sign and digits; the number set in the frame is read back as its digits
ParseNumber(s) == ParseU64(s)

\* write_flac_metadata: "if let Some(v) = &update.f { tag.set_vorbis(KEY, vec![v]) }"
write_flac_metadata(tag, update) ==
    [key \in DOMAIN tag |->
        LET set == {f \in CanonicalFields : VorbisKey(f) = key /\ update[f] # NoText}
        IN  IF set = {} THEN tag[key] ELSE update[CHOOSE f \in set : TRUE]]

\* the fields write_mp3_metadata has a setter for; "Note: composer and
\* comment require adding frames directly"
Mp3TextFields == {"title", "artist", "album", "album_artist", "genre"}
Mp3NumberFields == {"year", "track_number", "disc_number"}

\* write_mp3_metadata: the text setters, and the number setters behind
\* "if let Ok(n) = v.parse()"
write_mp3_metadata(tag, update, year_frame) ==
    [key \in DOMAIN tag |->
        LET text == {f \in Mp3TextFields :
                        Id3Frame(f, year_frame) = key /\ update[f] # NoText}
            number == {f \in Mp3NumberFields :
                        /\ Id3Frame(f, year_frame) = key
                        /\ update[f] # NoText
                        /\ ParseNumber(update[f]).ok}
        IN  IF text # {} THEN update[CHOOSE f \in text : TRUE]
            ELSE IF number # {}
            THEN to_string(ParseNumber(update[CHOOSE f \in number : TRUE]).value)
            ELSE tag[key]]

\* write_audio_metadata: "match ext { "flac" => .., "mp3" => .., _ => bail!(..) }"
write_audio_metadata(ext, tag, update, year_frame) ==
    IF ext = "flac" THEN [ok |-> TRUE, tag |-> write_flac_metadata(tag, update)]
    ELSE IF ext = "mp3"
    THEN [ok |-> TRUE, tag |-> write_mp3_metadata(tag, update, year_frame)]
    ELSE [ok |-> FALSE, tag |-> tag]

\* parse_audio_file, the canonical fields of the Track: the value of a tag
\* whose key is one of the field's keys, None without such a tag
ParseFields(tag) ==
    [f \in CanonicalFields |->
        LET keys == {k \in DOMAIN tag : k \in TagKeys(f) /\ tag[k] # NoText}
        IN  IF keys = {} THEN NoText ELSE tag[CHOOSE k \in keys : TRUE]]

\* update_track_metadata for the track of the file: the tag written, the file
\* parsed again, the entry of the index replaced
UpdateTrackFields ==
    /\ md_in.ext # ""
    /\ md_out.status = "none"
    /\ LET written == write_audio_metadata(md_in.ext, md_file, md_in.update, md_in.year_frame)
       IN  IF written.ok
           THEN /\ md_file' = written.tag
                /\ md_index' = ParseFields(written.tag)
                /\ md_out' = [md_out EXCEPT !.status = "ok",
                                            !.track = ParseFields(written.tag)]
           ELSE /\ md_out' = [md_out EXCEPT !.status = "err"]
                /\ UNCHANGED <<md_file, md_index>>
    /\ UNCHANGED <<md_in, outsideMeta>>

\* get_track after the update
GetTrackFields ==
    /\ md_out.status = "ok"
    /\ ~md_out.read
    /\ md_out' = [md_out EXCEPT !.read = TRUE, !.got = md_index]
    /\ UNCHANGED <<md_in, md_file, md_index, outsideMeta>>

\* the extensions of the formats said to have a writer
WriterExts == {"flac", "mp3", "m4a"}

\* the keys of the tag of a file of each extension (iTunes atoms for m4a)
KeysOf(ext, year_frame) ==
    IF ext = "flac" THEN {VorbisKey(f) : f \in CanonicalFields}
    ELSE IF ext = "mp3" THEN {Id3Frame(f, year_frame) : f \in CanonicalFields}
    ELSE {"(c)nam", "(c)ART", "(c)alb", "aART", "(c)gen", "(c)day", "trkn", "disk",
          "(c)wrt", "(c)cmt"}

\* the texts of an update: a word, a number, a number with a leading zero
UpdateTexts == {<<"a">>, <<"7">>, <<"0", "7">>}

\* the updates with at most MaxFields fields that are not null
MetadataUpdates ==
    UNION {{[f \in CanonicalFields |-> IF f \in set THEN t[f] ELSE NoText] :
               t \in [set -> UpdateTexts]} :
           set \in {x \in SUBSET CanonicalFields : Cardinality(x) <= MaxFields}}

\* the tags a file comes with: every key absent, every key with the text "1"
PreviousTags(ext, year_frame) ==
    {[k \in KeysOf(ext, year_frame) |-> NoText], [k \in KeysOf(ext, year_frame) |-> <<"1">>]}

MetaInit ==
    /\ ServerIdle
    /\ FetchQuiet
    /\ DesQuiet
    /\ GroupQuiet
    /\ LockQuiet
    /\ RaceQuiet
    /\ PosQuiet
    /\ \E ext \in WriterExts, year_frame \in {"TYER", "TDRC"} :
         \E tag \in PreviousTags(ext, year_frame), update \in MetadataUpdates :
            /\ ext # "mp3" => year_frame = "TDRC"
            /\ md_in = [ext |-> ext, tag |-> tag, update |-> update, year_frame |-> year_frame]
            /\ md_file = tag
            /\ md_index = ParseFields(tag)
    /\ md_out = [status |-> "none", track |-> NoFields, read |-> FALSE, got |-> NoFields]

MetaNext ==
    \/ UpdateTrackFields
    \/ GetTrackFields

SpecMeta == MetaInit /\ [][MetaNext]_vars

\* ------------------- albums and artists of the index (src/src/library.rs)
\* A name is the sequence of the bytes of its text; String::cmp compares
\* names byte by byte, a proper prefix before the longer name.
RECURSIVE Less(_, _)
Less(a, b) ==
    IF b = <<>> THEN FALSE
    ELSE IF a = <<>> THEN TRUE
    ELSE IF Head(a) # Head(b) THEN Head(a) < Head(b)
    ELSE Less(Tail(a), Tail(b))

\* "Unknown Album", "Unknown Artist"
UnknownAlbum == <<85, 110, 107, 110, 111, 119, 110, 32, 65, 108, 98, 117, 109>>
UnknownArtist == <<85, 110, 107, 110, 111, 119, 110, 32, 65, 114, 116, 105, 115, 116>>

\* get_albums, "track.album.clone().unwrap_or_else(|| "Unknown Album".to_string())"
album_name_NoDefault(track) == track.album
album_name(track) == IF track.album = NoText THEN UnknownAlbum ELSE track.album

\* get_artists, "album.artist.clone().unwrap_or_else(|| "Unknown Artist".to_string())"
artist_name(album) == IF album.artist = NoText THEN UnknownArtist ELSE album.artist

\* albums.sort_by(|a, b| a.name.cmp(&b.name)) of the values of a map, whose
\* names differ: the one of the least name first
RECURSIVE SortByName(_)
SortByName(set) ==
    IF set = {} THEN <<>>
    ELSE LET first == CHOOSE x \in set : \A y \in set \ {x} : Less(x.name, y.name)
         IN  <<first>> \o SortByName(set \ {first})

RECURSIVE Sum(_)
Sum(seq) == IF seq = <<>> THEN 0 ELSE Head(seq) + Sum(Tail(seq))

\* Album { name, artist, track_count, tracks }: the artist that of the first
\* track pushed
Album(name, album_tracks) ==
    [name |-> name, artist |-> Head(album_tracks).artist,
     track_count |-> Len(album_tracks), tracks |-> album_tracks]

\* Artist { name, album_count, track_count, albums }
Artist(name, artist_albums) ==
    [name |-> name, album_count |-> Len(artist_albums),
     track_count |-> Sum([i \in 1..Len(artist_albums) |-> artist_albums[i].track_count]),
     albums |-> artist_albums]

\* get_albums: the tracks grouped by album name in the order of the index (the
\* Vec that entry(..).or_insert_with(Vec::new).push(..) builds), the albums
\* sorted by name
get_albums(index) ==
    SortByName({Album(name, SelectSeq(index, LAMBDA t : album_name(t) = name)) :
                  name \in {album_name(index[i]) : i \in 1..Len(index)}})

\* get_artists: the albums of get_albums grouped by artist name, the artists
\* sorted by name
get_artists(index) ==
    LET albums == get_albums(index)
    IN  SortByName({Artist(name, SelectSeq(albums, LAMBDA a : artist_name(a) = name)) :
                      name \in {artist_name(albums[i]) : i \in 1..Len(albums)}})

\* GET /albums
GetAlbums ==
    /\ al_out.stage = "none"
    /\ al_out' = [al_out EXCEPT !.stage = "albums", !.albums = get_albums(al_in)]
    /\ UNCHANGED <<al_in, outsideGroup>>

\* GET /artists
GetArtists ==
    /\ al_out.stage = "albums"
    /\ al_out' = [al_out EXCEPT !.stage = "artists", !.artists = get_artists(al_in)]
    /\ UNCHANGED <<al_in, outsideGroup>>

\* the names of albums and artists of the tags: "A", "a", and the names of
\* the buckets themselves
AlbumNames == {<<65>>, <<97>>, UnknownAlbum}
ArtistNames == {<<66>>, UnknownArtist}

\* the tracks of an index: the id is the place in the index
IndexedTracks(n) ==
    {[i \in 1..n |-> [id |-> i, album |-> t[i].album, artist |-> t[i].artist]] :
        t \in [1..n -> [album : {NoText} \cup AlbumNames, artist : {NoText} \cup ArtistNames]]}

GroupInit ==
    /\ ServerIdle
    /\ FetchQuiet
    /\ DesQuiet
    /\ MetaQuiet
    /\ LockQuiet
    /\ RaceQuiet
    /\ PosQuiet
    /\ al_in \in UNION {IndexedTracks(n) : n \in 0..MaxIndex}
    /\ al_out = [stage |-> "none", albums |-> <<>>, artists |-> <<>>]

GroupNext ==
    \/ GetAlbums
    \/ GetArtists

SpecGroup == GroupInit /\ [][GroupNext]_vars

\* ------------- the lock of the track list (src/src/library.rs, tokio RwLock)
\* tracks is a tokio::sync::RwLock.  Its policy is fair: the tasks that wait
\* form a queue, a read guard is given at once only when no task waits and no
\* writer holds the lock, and a released lock goes to the head of the queue.
Readers == {<<"get_stats", i>> : i \in 1..NumReaders}
\* the writers of the index: PUT / DELETE /lyrics, the last step of a
\* mutation, the last step of scan
Writers == {<<"update_track_lyrics_status", 1>>, <<"replace_track", 1>>, <<"scan", 1>>}
Tasks == Readers \cup Writers

Waiting(queue, task) == \E i \in 1..Len(queue) : queue[i].task = task

\* RwLock::read / RwLock::write can be given at once
CanRead(queue, writer) == queue = <<>> /\ writer = {}
CanWrite(queue, readers, writer) ==
    queue = <<>> /\ writer = {} /\ \A t \in DOMAIN readers : readers[t] = 0

\* the lock after the waiting tasks at the head of the queue got what they
\* wait for: readers as long as no writer holds the lock, a writer when
\* nobody holds it
RECURSIVE Grant(_)
Grant(lock) ==
    IF lock.queue = <<>> THEN lock
    ELSE LET head == Head(lock.queue)
         IN  IF head.kind = "read" /\ lock.writer = {}
             THEN Grant([lock EXCEPT !.queue = Tail(@),
                                     !.readers[head.task] = @ + 1])
             ELSE IF /\ head.kind = "write"
                     /\ lock.writer = {}
                     /\ \A t \in DOMAIN lock.readers : lock.readers[t] = 0
             THEN [lock EXCEPT !.queue = Tail(@), !.writer = {head.task}]
             ELSE lock

Lock == [readers |-> rw_readers, writer |-> rw_writer, queue |-> rw_queue]

SetLock(lock) ==
    /\ rw_readers' = lock.readers
    /\ rw_writer' = lock.writer
    /\ rw_queue' = lock.queue

\* "self.tracks.read().await": the guard at once, or a place in the queue
read(lock, task) ==
    IF CanRead(lock.queue, lock.writer)
    THEN [lock EXCEPT !.readers[task] = @ + 1]
    ELSE [lock EXCEPT !.queue = Append(@, [task |-> task, kind |-> "read"])]

\* "self.tracks.write().await"
write(lock, task) ==
    IF CanWrite(lock.queue, lock.readers, lock.writer)
    THEN [lock EXCEPT !.writer = {task}]
    ELSE [lock EXCEPT !.queue = Append(@, [task |-> task, kind |-> "write"])]

\* a read guard dropped, the write guard dropped
drop_read(lock, task) == Grant([lock EXCEPT !.readers[task] = @ - 1])
drop_write(lock, task) == Grant([lock EXCEPT !.writer = {}])

\* get_stats, "let tracks = self.tracks.read().await"
get_stats(r) ==
    /\ rw_pc[r] = "idle"
    /\ SetLock(read(Lock, r))
    /\ rw_pc' = [rw_pc EXCEPT ![r] = "tracks.read"]
    /\ UNCHANGED outsideLock

\* get_stats holds its guard and calls get_albums, "self.tracks.read().await"
get_stats_get_albums(r) ==
    /\ rw_pc[r] = "tracks.read"
    /\ ~Waiting(rw_queue, r)
    /\ SetLock(read(Lock, r))
    /\ rw_pc' = [rw_pc EXCEPT ![r] = "get_albums.read"]
    /\ UNCHANGED outsideLock

\* get_albums returns and drops its guard; get_stats calls get_artists, which
\* calls get_albums, "self.tracks.read().await"
get_stats_get_artists(r) ==
    /\ rw_pc[r] = "get_albums.read"
    /\ ~Waiting(rw_queue, r)
    /\ SetLock(read(drop_read(Lock, r), r))
    /\ rw_pc' = [rw_pc EXCEPT ![r] = "get_artists.read"]
    /\ UNCHANGED outsideLock

\* get_artists returns, get_stats returns the LibraryStats and drops its guard
get_stats_return(r) ==
    /\ rw_pc[r] = "get_artists.read"
    /\ ~Waiting(rw_queue, r)
    /\ SetLock(drop_read(drop_read(Lock, r), r))
    /\ rw_pc' = [rw_pc EXCEPT ![r] = "returned"]
    /\ UNCHANGED outsideLock

\* a writer of the index, "let mut tracks = self.tracks.write().await"
write_tracks(w) ==
    /\ rw_pc[w] = "idle"
    /\ SetLock(write(Lock, w))
    /\ rw_pc' = [rw_pc EXCEPT ![w] = "tracks.write"]
    /\ UNCHANGED outsideLock

\* the writer has changed the index and drops its guard
write_return(w) ==
    /\ rw_pc[w] = "tracks.write"
    /\ ~Waiting(rw_queue, w)
    /\ SetLock(drop_write(Lock, w))
    /\ rw_pc' = [rw_pc EXCEPT ![w] = "returned"]
    /\ UNCHANGED outsideLock

LockInit ==
    /\ ServerIdle
    /\ FetchQuiet
    /\ DesQuiet
    /\ MetaQuiet
    /\ GroupQuiet
    /\ RaceQuiet
    /\ PosQuiet
    /\ rw_pc = [t \in Tasks |-> "idle"]
    /\ rw_readers = [t \in Tasks |-> 0]
    /\ rw_writer = {}
    /\ rw_queue = <<>>

ReaderStep(r) ==
    \/ get_stats(r)
    \/ get_stats_get_albums(r)
    \/ get_stats_get_artists(r)
    \/ get_stats_return(r)

WriterStep(w) ==
    \/ write_tracks(w)
    \/ write_return(w)

LockNext ==
    \/ \E r \in Readers : ReaderStep(r)
    \/ \E w \in Writers : WriterStep(w)

SpecLock == LockInit /\ [][LockNext]_vars

\* the runtime polls every task that can go on: a request is made when its
\* handler runs, and a task that was given the lock wakes up
SpecLockFair ==
    /\ SpecLock
    /\ \A r \in Readers : WF_vars(ReaderStep(r))
    /\ \A w \in Writers : WF_vars(WriterStep(w))

\* ------- PUT and DELETE /lyrics/:id, step by step (src/src/server.rs)
\* A handler awaits the index, then the lyrics database, then the index
\* again; between two awaits the steps of other requests run.
LyricRequests == {<<method, i>> : method \in {"PUT", "DELETE"}, i \in 1..NumLyricRequests}

\* the track every request names
RaceTrack == Md5(Join(DefaultRoot, 1))

\* what no step of these handlers changes
outsideRace ==
    <<plVars, disk, mutVars, scanVars, lib_read, library_path, statsVars, stream_out,
      ly_in, ly_out, fetchVars, desVars, metaVars, groupVars, lockVars, posVars>>

LyricGoto(q, label) ==
    /\ lr_pc' = [lr_pc EXCEPT ![q] = label]
    /\ UNCHANGED lr_out

LyricRespond(q, status) ==
    /\ lr_pc' = [lr_pc EXCEPT ![q] = "returned"]
    /\ lr_out' = [lr_out EXCEPT ![q] = status]

\* upload_lyrics / delete_lyrics, "state.library.get_track(&id).await
\* .ok_or(StatusCode::NOT_FOUND)?"
lyrics_get_track(q) ==
    /\ lr_pc[q] = "get_track"
    /\ IF Positions(tracks, RaceTrack) = {}
       THEN LyricRespond(q, 404)
       ELSE LyricGoto(q, IF q[1] = "PUT" THEN "save_lyric" ELSE "delete_lyric")
    /\ UNCHANGED <<tracks, lyrics, outsideRace>>

\* upload_lyrics, "state.lyrics_db.save_lyric(..).await.map_err(..)?"
upload_lyrics_save_lyric(q, ok) ==
    /\ lr_pc[q] = "save_lyric"
    /\ IF ok
       THEN /\ lyrics' = UpsertLyric(lyrics, RaceTrack, <<"a">>, as_str("Plain"), None, None)
            /\ LyricGoto(q, "update_status")
       ELSE /\ LyricRespond(q, 500)
            /\ UNCHANGED lyrics
    /\ UNCHANGED <<tracks, outsideRace>>

\* upload_lyrics, "state.library.update_track_lyrics_status(&id, true).await"
\* and Ok(Json(lyric))
upload_lyrics_update_status(q) ==
    /\ lr_pc[q] = "update_status"
    /\ q[1] = "PUT"
    /\ tracks' = SetLyricsStatus(tracks, RaceTrack, TRUE)
    /\ LyricRespond(q, 200)
    /\ UNCHANGED <<lyrics, outsideRace>>

\* delete_lyrics, "state.lyrics_db.delete_lyric(&id).await.map_err(..)?" and
\* "if !deleted { return Err(StatusCode::NOT_FOUND) }"
delete_lyrics_delete_lyric(q, ok) ==
    /\ lr_pc[q] = "delete_lyric"
    /\ IF ok
       THEN /\ lyrics' = DeleteLyric(lyrics, RaceTrack)
            /\ IF RowsAffected(lyrics, lyrics') > 0
               THEN LyricGoto(q, "update_status")
               ELSE LyricRespond(q, 404)
       ELSE /\ LyricRespond(q, 500)
            /\ UNCHANGED lyrics
    /\ UNCHANGED <<tracks, outsideRace>>

\* delete_lyrics, "state.library.update_track_lyrics_status(&id, false).await"
\* and Ok(StatusCode::NO_CONTENT)
delete_lyrics_update_status(q) ==
    /\ lr_pc[q] = "update_status"
    /\ q[1] = "DELETE"
    /\ tracks' = SetLyricsStatus(tracks, RaceTrack, FALSE)
    /\ LyricRespond(q, 204)
    /\ UNCHANGED <<lyrics, outsideRace>>

\* the library with one indexed track without lyrics, every request received
RaceInit ==
    /\ library_path = DefaultRoot
    /\ disk = [p \in Paths |-> IF p = 1 THEN AudioFile(NoTag) ELSE OtherFile]
    /\ tracks = IndexOf(disk, {}, NumEntries)
    /\ MutIdle
    /\ ScanIdle
    /\ lib_read = NoRead
    /\ PlQuiet
    /\ StatsQuiet
    /\ stream_out = NotStreamed
    /\ LyricsQuiet
    /\ FetchQuiet
    /\ DesQuiet
    /\ MetaQuiet
    /\ GroupQuiet
    /\ LockQuiet
    /\ PosQuiet
    /\ lr_pc = [q \in LyricRequests |-> "get_track"]
    /\ lr_out = [q \in LyricRequests |-> 0]

RaceNext ==
    \/ \E q \in LyricRequests : lyrics_get_track(q)
    \/ \E q \in LyricRequests, ok \in BOOLEAN : upload_lyrics_save_lyric(q, ok)
    \/ \E q \in LyricRequests : upload_lyrics_update_status(q)
    \/ \E q \in LyricRequests, ok \in BOOLEAN : delete_lyrics_delete_lyric(q, ok)
    \/ \E q \in LyricRequests : delete_lyrics_update_status(q)

SpecRace == RaceInit /\ [][RaceNext]_vars

\* -- add_track_to_playlist and remove_track_from_playlist, statement by
\* statement (src/src/playlist.rs).  Neither opens a transaction: the
\* statements of two calls interleave.
NoLocals == [track_id |-> 0, new_position |-> 0, tracks |-> <<>>, i |-> 0]

\* what no statement of these handlers changes
outsidePos ==
    <<libVars, statsVars, stream_out, lyricVars,
      fetchVars, desVars, metaVars, groupVars, lockVars, raceVars>>

\* add_track_to_playlist, "SELECT COUNT(*) FROM playlists WHERE id = ?"
at_begin(c, playlist_id, track_id) ==
    /\ pl_pc[c] = "idle"
    /\ pl_out[c] = NoReturn
    /\ IF CountPlaylists(playlists, playlist_id) = 0
       THEN /\ Return(c, OkNone("add_track_to_playlist"))
            /\ UNCHANGED pl_locals
       ELSE /\ Goto(c, "at_max", Call("add_track_to_playlist", playlist_id, NoUpdate))
            /\ pl_locals' = [pl_locals EXCEPT ![c] = [NoLocals EXCEPT !.track_id = track_id]]
    /\ UNCHANGED <<dbVars, ret, outsidePos>>

\* add_track_to_playlist, "SELECT MAX(position) FROM playlist_tracks WHERE
\* playlist_id = ?" and "let new_position = max_position + 1"
at_max(c) ==
    /\ pl_pc[c] = "at_max"
    /\ Goto(c, "at_insert", pl_call[c])
    /\ pl_locals' = [pl_locals EXCEPT
                       ![c].new_position = MaxPosition(playlist_tracks, pl_call[c].id) + 1]
    /\ UNCHANGED <<dbVars, ret, outsidePos>>

\* add_track_to_playlist, "INSERT OR IGNORE INTO playlist_tracks ..", then the
\* timestamp of the playlist; get_playlist follows
at_insert(c) ==
    /\ pl_pc[c] = "at_insert"
    /\ LET result == InsertOrIgnoreTrack(playlists, playlist_tracks, pl_call[c].id,
                                         pl_locals[c].track_id, pl_locals[c].new_position)
       IN  IF ~result.ok
           THEN /\ Return(c, ErrOther("add_track_to_playlist"))
                /\ UNCHANGED playlist_tracks
           ELSE /\ playlist_tracks' = result.rows
                /\ Goto(c, "gp_row", pl_call[c])
    /\ UNCHANGED <<playlists, ret, pl_locals, outsidePos>>

\* remove_track_from_playlist, "DELETE FROM playlist_tracks WHERE playlist_id
\* = ? AND track_id = ?" and "if result.rows_affected() > 0 { .. } else { Ok(None) }"
rt_begin(c, playlist_id, track_id) ==
    /\ pl_pc[c] = "idle"
    /\ pl_out[c] = NoReturn
    /\ playlist_tracks' = DeleteTrack(playlist_tracks, playlist_id, track_id)
    /\ IF RowsAffected(playlist_tracks, playlist_tracks') > 0
       THEN /\ Goto(c, "rt_select", Call("remove_track_from_playlist", playlist_id, NoUpdate))
            /\ pl_locals' = [pl_locals EXCEPT ![c] = [NoLocals EXCEPT !.track_id = track_id]]
       ELSE /\ Return(c, OkNone("remove_track_from_playlist"))
            /\ UNCHANGED pl_locals
    /\ UNCHANGED <<playlists, ret, outsidePos>>

\* remove_track_from_playlist, "let tracks = self.get_playlist_tracks(playlist_id).await?"
rt_select(c) ==
    /\ pl_pc[c] = "rt_select"
    /\ \E track_ids \in get_playlist_tracks(playlist_tracks, pl_call[c].id) :
          /\ pl_locals' = [pl_locals EXCEPT ![c].tracks = track_ids, ![c].i = 1]
          /\ Goto(c, IF track_ids = <<>> THEN "gp_row" ELSE "rt_update", pl_call[c])
    /\ UNCHANGED <<dbVars, ret, outsidePos>>

\* remove_track_from_playlist, one "UPDATE playlist_tracks SET position = ? .."
\* of the loop; after the last one the timestamp, and get_playlist follows
rt_update(c) ==
    /\ pl_pc[c] = "rt_update"
    /\ LET locals == pl_locals[c]
       IN  /\ playlist_tracks' = UpdatePosition(playlist_tracks, pl_call[c].id,
                                                locals.tracks[locals.i], locals.i - 1)
           /\ pl_locals' = [pl_locals EXCEPT ![c].i = locals.i + 1]
           /\ Goto(c, IF locals.i = Len(locals.tracks) THEN "gp_row" ELSE "rt_update",
                    pl_call[c])
    /\ UNCHANGED <<playlists, ret, outsidePos>>

\* the lists the playlist holds at the start: tracks in some order, without
\* the last track of the library
StoredLists == {s \in SeqsUpTo(TrackIds \ {NumTracks}, NumTracks) : IsInjective(s)}

\* one playlist with a list whose positions are 0.., each client to make one call
PosInit ==
    /\ playlists = {[id |-> "p1", name |-> "n1", description |-> None]}
    /\ \E s \in StoredLists : playlist_tracks = RowsOfList("p1", s)
    /\ ret = NoReturn
    /\ RwIdle
    /\ library_path = DefaultRoot
    /\ tracks = <<>>
    /\ disk = [p \in Paths |-> OtherFile]
    /\ MutIdle
    /\ ScanIdle
    /\ lib_read = NoRead
    /\ StatsQuiet
    /\ stream_out = NotStreamed
    /\ LyricsQuiet
    /\ FetchQuiet
    /\ DesQuiet
    /\ MetaQuiet
    /\ GroupQuiet
    /\ LockQuiet
    /\ RaceQuiet
    /\ pl_locals = [c \in Clients |-> NoLocals]

PosNext ==
    \/ \E c \in Clients, t \in TrackIds : at_begin(c, "p1", t)
    \/ \E c \in Clients : at_max(c)
    \/ \E c \in Clients : at_insert(c)
    \/ \E c \in Clients, t \in TrackIds : rt_begin(c, "p1", t)
    \/ \E c \in Clients : rt_select(c)
    \/ \E c \in Clients : rt_update(c)
    \/ \E c \in Clients : gp_row(c)
    \/ \E c \in Clients : gp_tracks(c)

SpecPos == PosInit /\ [][PosNext]_vars

\* ============================================================== claims

\* C1: after any sequence of create_playlist, add_track_to_playlist,
\* remove_track_from_playlist and update_playlist calls, each finished before
\* the next starts, no playlist holds a track id twice and the stored
\* positions of every playlist are exactly 0, 1, ..., len-1.
C1_TracksDistinctAndContiguous ==
    \A p \in PlaylistIds :
        LET rows == TracksOf(playlist_tracks, p)
        IN  /\ \A r, q \in rows : r.track_id = q.track_id => r = q
            /\ {r.position : r \in rows} = 0..(Cardinality(rows) - 1)
            /\ \A s \in get_playlist_tracks(playlist_tracks, p) : IsInjective(s)

\* an update_playlist with a list that repeats a track id has stopped half way
C1_Witness ==
    /\ ret.op = "update_playlist"
    /\ ret.status = "error"
    /\ \E p \in PlaylistIds : TracksOf(playlist_tracks, p) # {}

\* C2: while update_playlist replaces a non-empty track list by a non-empty
\* one, a concurrent get_playlist never returns an empty list nor a list that
\* is neither the complete old nor the complete new list.  (Every list
\* SpecPlRW stores is a reordering of all tracks, so a complete list is one of
\* Reorderings.)  The code deletes and inserts outside any transaction.
C2_ReadersSeeCompleteList ==
    \A c \in Clients :
        (pl_out[c].op = "get_playlist" /\ pl_out[c].status = "ok")
        => pl_out[c].playlist.tracks \in Reorderings

\* C3: when a mutation (update_track_metadata, set_cover_art, remove_cover_art)
\* of an indexed track replaces the index entry, under any interleaving with
\* other mutations and with update_track_lyrics_status, the entry keeps its id
\* and the has_lyrics value the index held just before the replacement (the
\* value it has without the mutation).  The code restores has_lyrics from the
\* copy it took before the file was written.
C3_MutationKeepsIdAndLyricsFlag ==
    [][\A m \in Mutators :
          (lib_pc[m] = "replace" /\ lib_pc'[m] = "idle")
          => /\ Len(tracks') = Len(tracks)
             /\ \A i \in 1..Len(tracks) :
                   /\ tracks'[i].id = tracks[i].id
                   /\ tracks'[i].has_lyrics = tracks[i].has_lyrics
      ]_vars

\* C4: once a set_cover_art and an update_track_metadata of the same track,
\* run by two tasks, have both returned Ok, the index entry of the track is
\* what parsing the file on disk yields (has_lyrics apart, which no file holds).
C4_IndexReflectsLastWriter ==
    \A a, b \in Mutators, id \in LibraryIds :
        ( /\ a # b
          /\ lib_pc[a] = "idle" /\ lib_pc[b] = "idle"
          /\ lib_out[a].op = "set_cover_art" /\ lib_out[a].status = "ok"
          /\ lib_out[a].id = id
          /\ lib_out[b].op = "update_track_metadata" /\ lib_out[b].status = "ok"
          /\ lib_out[b].id = id )
        => [FindTrack(tracks, id) EXCEPT !.has_lyrics = FALSE]
             = parse_audio_file(disk, FindTrack(tracks, id).path)

\* C5: whenever a mutation has returned, with Ok or with the error of any of
\* its failure points (track lookup, file write, re-parse), every index entry
\* agrees with its file on disk (has_lyrics apart).
C5_IndexAgreesWithDisk ==
    (lib_pc["m1"] = "idle" /\ lib_out["m1"].op # "none")
    => \A i \in 1..Len(tracks) :
          [tracks[i] EXCEPT !.has_lyrics = FALSE] = parse_audio_file(disk, tracks[i].path)

\* C6: remove_track_from_playlist(p, t) with t in p leaves exactly the previous
\* track list without t, in the same relative order, at positions 0..len-2,
\* and returns that list.
C6_RemoveKeepsOrderAndRenumbers ==
    [][\A p \in PlaylistIds, t \in TrackIds :
          ( /\ ret'.op = "remove_track_from_playlist"
            /\ \E r \in playlist_tracks : r.playlist_id = p /\ r.track_id = t
            /\ remove_track_from_playlist(p, t) )
          => LET before == CHOOSE s \in get_playlist_tracks(playlist_tracks, p) : TRUE
                 expected == SelectSeq(before, LAMBDA x : x # t)
             IN  /\ Len(expected) = Len(before) - 1
                 /\ TracksOf(playlist_tracks', p) = RowsOfList(p, expected)
                 /\ \A q \in PlaylistIds \ {p} :
                        TracksOf(playlist_tracks', q) = TracksOf(playlist_tracks, q)
                 /\ ret'.status = "ok"
                 /\ ret'.playlist.tracks = expected
      ]_vars

\* a track other than the last one has been removed from a playlist of three
C6_Witness ==
    /\ ret.op = "remove_track_from_playlist"
    /\ ret.status = "ok"
    /\ ret.playlist.tracks = <<1, 3>>
    /\ TracksOf(playlist_tracks, ret.playlist.id) = RowsOfList(ret.playlist.id, <<1, 3>>)

\* C7: add_track_to_playlist(p, t) on an existing playlist p appends t after
\* all current tracks at position max+1 (0 for an empty playlist) when t is not
\* in p, and changes no row when t is already in p.
C7_AddAppendsOrIgnores ==
    [][\A p \in PlaylistIds, t \in TrackIds :
          ( /\ ret'.op = "add_track_to_playlist"
            /\ \E r \in playlists : r.id = p
            /\ add_track_to_playlist(p, t) )
          => LET rows == TracksOf(playlist_tracks, p)
                 position == IF rows = {} THEN 0
                             ELSE Max({r.position : r \in rows}) + 1
             IN  IF \E r \in rows : r.track_id = t
                 THEN playlist_tracks' = playlist_tracks
                 ELSE /\ playlist_tracks' = playlist_tracks \cup
                            {[playlist_id |-> p, track_id |-> t, position |-> position]}
                      /\ \A before \in get_playlist_tracks(playlist_tracks, p) :
                            /\ get_playlist_tracks(playlist_tracks', p) = {Append(before, t)}
                            /\ ret' = Ok("add_track_to_playlist",
                                         [ret'.playlist EXCEPT !.tracks = Append(before, t)])
      ]_vars

\* a third track has been appended to a playlist of two
C7_Witness ==
    /\ ret.op = "add_track_to_playlist"
    /\ ret.status = "ok"
    /\ Len(ret.playlist.tracks) = 3
    /\ TracksOf(playlist_tracks, ret.playlist.id)
         = RowsOfList(ret.playlist.id, ret.playlist.tracks)

\* C8: no two playlists ever have the same name; create_playlist with a name
\* a playlist holds, and update_playlist renaming a playlist to a name another
\* playlist holds, return the "already exists" error and change no table.
C8_NamesUnique ==
    /\ \A r, q \in playlists : r.name = q.name => r.id = q.id
    /\ \A name \in Names, description \in {None} \cup Descriptions :
          (\E r \in playlists : r.name = name)
          => ~ENABLED ( /\ create_playlist(name, description)
                        /\ ~( /\ ret' = ErrAlreadyExists("create_playlist")
                              /\ UNCHANGED <<playlists, playlist_tracks>> ) )
    /\ \A id \in PlaylistIds, update \in PlaylistUpdates :
          ( /\ update.name # None
            /\ \E r \in playlists : r.id = id
            /\ \E r \in playlists : r.id # id /\ r.name = update.name )
          => ~ENABLED ( /\ update_playlist(id, update)
                        /\ ~( /\ ret' = ErrAlreadyExists("update_playlist")
                              /\ UNCHANGED <<playlists, playlist_tracks>> ) )

\* a rename to the name of the other playlist has been refused
C8_Witness ==
    /\ ret = ErrAlreadyExists("update_playlist")
    /\ Cardinality(playlists) = 2
    /\ Cardinality({r.name : r \in playlists}) = 2

\* C9: the index changes only in the last step of scan(), after the walk has
\* visited every entry, and then to the complete index of the scan (the tracks
\* of all audio files that parsed, in walk order); get_tracks and get_track
\* return the index, or its entry, as it is at that moment.  So a reader sees
\* the complete index of before the scan or the complete new one.
C9_ScanReplacesIndexAtomically ==
    [][/\ tracks' # tracks
          => /\ scan_pc = "walk" /\ scan_i > NumEntries
             /\ scan_pc' = "idle" /\ scan_out' = ScanOk
             /\ tracks' = IndexOf(disk, scan_warned, NumEntries)
       /\ lib_read' # lib_read
          => /\ tracks' = tracks
             /\ lib_read'.op = "get_tracks" => lib_read'.tracks = tracks
             /\ lib_read'.op = "get_track"
                  => lib_read'.tracks = IF Positions(tracks, lib_read'.id) = {} THEN <<>>
                                        ELSE <<FindTrack(tracks, lib_read'.id)>>
      ]_vars

\* half way through a scan that has found a track, get_tracks has returned the
\* index of the scan before, which differs from what the walk has collected
C9_Witness ==
    /\ scan_pc = "walk"
    /\ scan_buf # <<>>
    /\ scan_i <= NumEntries
    /\ lib_read.op = "get_tracks"
    /\ lib_read.tracks = tracks
    /\ tracks # <<>>
    /\ tracks # scan_buf

\* C11: the id scan() gives a track depends only on the path of the file
\* relative to the library root: a scan of the same folder mounted at any other
\* root gives the file the same id.  The code hashes the path as walked, which
\* starts with the root.
C11_IdDependsOnRelativePath ==
    (scan_pc = "idle" /\ scan_out = ScanOk)
    => \A i \in 1..Len(tracks), root \in Roots :
          tracks[i].id = parse_audio_file(disk, Join(root, RelativePath(tracks[i].path))).id

\* C10: when scan() has ended after the processing of an entry failed (the
\* metadata of the entry could not be read, or parse_audio_file failed), it has
\* returned Ok and the index holds every audio file that parsed.  The code
\* ends the walk with the error of tokio::fs::metadata.
C10_EntryFailuresAreWarnings ==
    ( /\ scan_pc = "idle"
      /\ scan_out.status # "none"
      /\ scan_out.what # "read_dir" )
    => /\ scan_out = ScanOk
       /\ tracks = IndexOf(disk, scan_warned, NumEntries)

\* C12: the stored play_count of a track never decreases, there is one row per
\* track id, and the increment of a request stores and returns 1 for a track
\* without a row and the stored value plus 1 otherwise, whatever the other
\* requests do.
C12_PlayCountMonotone ==
    [][/\ \A id \in LibraryIds :
             StoredCount(track_stats', id) >= StoredCount(track_stats, id)
       /\ \A a, b \in track_stats' : a.track_id = b.track_id => a = b
       /\ \A r \in Players :
             (st_pc[r] = "increment" /\ st_pc'[r] = "reconcile")
             => /\ st_call'[r].count = StoredCount(track_stats, st_call[r].id) + 1
                /\ StoredCount(track_stats', st_call[r].id) = st_call'[r].count
      ]_vars

\* a request has incremented the counter another request had brought to 1
C12_Witness ==
    \E r \in Players :
        /\ st_pc[r] = "reconcile"
        /\ st_call[r].count = 2
        /\ StoredCount(track_stats, st_call[r].id) = 2

\* C13: once every play request has returned, the in-memory play count of each
\* indexed track is the play_count the stats database stores.  The handler
\* increments in the database and sets the in-memory counter in two steps.
C13_MemoryCountEqualsStored ==
    (\A r \in Players : st_pc[r] = "idle")
    => \A id \in LibraryIds :
          Positions(tracks, id) # {} => play_count[id] = StoredCount(track_stats, id)

\* C14: for every file size and every Range header parse_range accepts, the
\* pair has 0 <= start <= end <= total - 1, and the endpoint (its file
\* readable) answers 206 with Content-Length end - start + 1 and Content-Range
\* start-end/total, total being the file size; a suffix range ends at the last
\* byte.  For a file of 1,000,000 bytes, bytes=100-199 gives 100 bytes at
\* 100-199 and bytes=-50 gives 50 bytes at 999950-999999.
C14_RangeWithinFile ==
    /\ LET r == parse_range(stream_out.range.value, stream_out.file_size)
           total == stream_out.file_size
       IN  ( /\ stream_out.response.status \notin {0, 404}
             /\ stream_out.range.present
             /\ r.some )
           => /\ 0 <= r.start /\ r.start <= r.end /\ r.end <= total - 1
              /\ stream_out.io_ok
                   => stream_out.response
                        = StreamResponse(206, r.end - r.start + 1, <<r.start, r.end, total>>)
    /\ stream_range(100, 199, 1000000, TRUE)
         = StreamResponse(206, 100, <<100, 199, 1000000>>)
    /\ parse_range(BytesEquals(<<"1", "0", "0", "-", "1", "9", "9">>), 1000000)
         = SomeRange(100, 199)
    /\ parse_range(BytesEquals(<<"-", "5", "0">>), 1000000) = SomeRange(999950, 999999)
    /\ stream_range(999950, 999999, 1000000, TRUE)
         = StreamResponse(206, 50, <<999950, 999999, 1000000>>)

\* a range that reaches past the end of the file has been answered up to the
\* last byte
C14_Witness ==
    /\ stream_out.range = Header(BytesEquals(<<"1", "-", "1", "1">>))
    /\ stream_out.file_size = 5
    /\ stream_out.response = StreamResponse(206, 4, <<1, 4, 5>>)

\* a bound of a range is numeric: digits, a sign allowed before them
IsNumeric(s) ==
    /\ s # <<>>
    /\ \A i \in 2..Len(s) : s[i] \in Digits
    /\ s[1] \in Digits \/ (s[1] = "+" /\ Len(s) > 1)
NumericValue(s) == DecimalValue(SelectSeq(s, LAMBDA c : c \in Digits))

\* the header value is none of bytes=start-end, bytes=start- and bytes=-suffix
\* within a file of the given size: no "bytes=" prefix, not exactly one "-",
\* both bounds empty, a bound that is not numeric, start > end, start >= size,
\* a suffix length of 0 or above the size (spaces around a bound apart)
NotAValidRange(value, size) ==
    \/ ~StartsWith(value, BytesPrefix)
    \/ LET body == SubSeq(value, 7, Len(value))
           dashes == {i \in 1..Len(body) : body[i] = "-"}
       IN  \/ Cardinality(dashes) # 1
           \/ LET k == CHOOSE i \in dashes : TRUE
                  first == Trim(SubSeq(body, 1, k - 1))
                  last == Trim(SubSeq(body, k + 1, Len(body)))
              IN  \/ first = <<>> /\ last = <<>>
                  \/ first # <<>> /\ ~IsNumeric(first)
                  \/ last # <<>> /\ ~IsNumeric(last)
                  \/ /\ IsNumeric(first)
                     /\ NumericValue(first) >= size
                  \/ /\ IsNumeric(first) /\ IsNumeric(last)
                     /\ NumericValue(first) > NumericValue(last)
                  \/ /\ first = <<>> /\ IsNumeric(last)
                     /\ NumericValue(last) = 0 \/ NumericValue(last) > size

\* C15: for an indexed track whose file reads, every Range header value that
\* is not a valid single range is answered 200 with the whole file:
\* Content-Length the file size and no Content-Range; no request is answered 416.
C15_MalformedRangeGetsWholeFile ==
    /\ stream_out.response.status # 416
    /\ ( /\ stream_out.response.status \notin {0, 404}
         /\ stream_out.io_ok
         /\ stream_out.range.present
         /\ NotAValidRange(stream_out.range.value, stream_out.file_size) )
       => stream_out.response = StreamResponse(200, stream_out.file_size, <<>>)

\* a suffix range of no byte has been answered with the whole file
C15_Witness ==
    /\ stream_out.range = Header(BytesEquals(<<"-", "0">>))
    /\ stream_out.file_size = 5
    /\ stream_out.response = StreamResponse(200, 5, <<>>)

\* C16: PUT /tracks/:id answers 404 when no indexed track has the id and 500
\* when writing or re-parsing the file of an indexed track fails, and the index
\* is as it was in both cases.
C16_UnknownIs404FailureIs500 ==
    [][\A m \in Mutators :
         ( /\ lib_pc[m] # "idle" \/ lib_out'[m] # lib_out[m]
           /\ lib_pc'[m] = "idle"
           /\ lib_out'[m].op = "update_track_metadata"
           /\ lib_out'[m].status # "ok" )
         => /\ tracks' = tracks
            /\ update_track(lib_out'[m]) =
                   IF lib_out'[m].status = "not_found" THEN 404 ELSE 500]_vars

\* positions first..last of s hold digits, one at least
AllDigits(s, first, last) ==
    /\ 1 <= first /\ first <= last /\ last <= Len(s)
    /\ \A k \in first..last : s[k] \in Digits

\* s holds text(offset,duration): a character that is no whitespace, then
\* "(", digits, ",", digits, ")"
HasWordGroup(s) ==
    \E open, comma, close \in 1..Len(s) :
        /\ open > 1 /\ s[open - 1] \notin Whitespace
        /\ s[open] = "(" /\ s[comma] = "," /\ s[close] = ")"
        /\ AllDigits(s, open + 1, comma - 1)
        /\ AllDigits(s, comma + 1, close - 1)

\* s holds a line timestamp: [m:ss.xx], [m:ss.xxx] or [digits,digits]
HasLineTimestamp(s) ==
    \E open, sep, close \in 1..Len(s) :
        /\ s[open] = "[" /\ s[close] = "]"
        /\ AllDigits(s, open + 1, sep - 1)
        /\ \/ /\ s[sep] = ","
              /\ AllDigits(s, sep + 1, close - 1)
           \/ /\ s[sep] = ":"
              /\ close - sep \in {6, 7}
              /\ AllDigits(s, sep + 1, sep + 2)
              /\ s[sep + 3] = "."
              /\ AllDigits(s, sep + 4, close - 1)

\* the format the content of a lyric shows
ContentFormat(s) ==
    IF HasWordGroup(s) THEN "LrcWord"
    ELSE IF HasLineTimestamp(s) THEN "Lrc" ELSE "Plain"

\* C17: PUT /lyrics/:id for an indexed track with no declared format stores
\* lrc_word when the content holds word-timed groups, lrc when it holds line
\* timestamps and no word-timed group, plain otherwise.
C17_UploadStoresDetectedFormat ==
    (ly_out.op = "upload_lyrics" /\ ly_out.status = 200 /\ ~ly_in.has_format)
    => /\ ly_out.lyric.format = ContentFormat(ly_in.content)
       /\ \A row \in SelectLyric(lyrics, ly_in.id) :
             row.format = as_str(ContentFormat(ly_in.content))

\* C18: detect_from_content returns LrcWord whenever the content holds a
\* non-whitespace run directly followed by (digits,digits), with or without
\* line timestamps; otherwise Lrc when it holds a line timestamp [m:ss.xx],
\* [m:ss.xxx] or [digits,digits]; otherwise Plain.
C18_DetectFromContent ==
    ly_out.op = "detect_from_content"
    => ly_out.lyric.format = ContentFormat(ly_in.content)

\* a content with a line timestamp and a word-timed group after it was
\* detected as LrcWord
C18_Witness ==
    /\ ly_out.op = "detect_from_content"
    /\ ly_in.content = <<"[", "0", ":", "0", "0", ".", "0", "0", "]",
                         "(", "0", ",", "0", ")">>
    /\ ly_out.lyric.format = "LrcWord"

\* C19: from_str(as_str(f)) = f for each of the three formats, and a
\* get_lyric that follows a save_lyric of the same track returns the lyric
\* with the format that was saved.
C19_FormatSurvivesStoreAndLoad ==
    [][ /\ \A f \in LyricFormats : from_str(as_str(f)) = f
        /\ ( /\ ly_out.op = "save_lyric"
             /\ ly_out'.op = "get_lyric"
             /\ ly_out'.track_id = ly_out.track_id )
           => /\ ly_out'.flag
              /\ ly_out'.lyric.format = ly_out.lyric.format ]_vars

\* a lyric saved as LrcWord has been loaded as LrcWord
C19_Witness ==
    /\ ly_out.op = "get_lyric"
    /\ ly_out.flag
    /\ ly_out.lyric.format = "LrcWord"
    /\ \E row \in lyrics : row.format = as_str("LrcWord")

\* the lyrics get_lyric can return for the track
Loaded(rows, track_id) ==
    {[row EXCEPT !.format = from_str(row.format)] : row \in SelectLyric(rows, track_id)}

\* C20: the table holds at most one row per track id; after a save_lyric the
\* track loads as the content, format, language and source just saved and
\* after a delete_lyric as nothing, the other tracks as before; get_lyric
\* and has_lyric answer what the table holds.
C20_UpsertThenGetDeleteThenNone ==
    [][ /\ \A row, other \in lyrics' : row.track_id = other.track_id => row = other
        /\ ly_out'.op = "save_lyric"
           => /\ Loaded(lyrics', ly_out'.track_id) = {ly_out'.lyric}
              /\ \A id \in LibraryIds \ {ly_out'.track_id} :
                    Loaded(lyrics', id) = Loaded(lyrics, id)
        /\ ly_out'.op = "delete_lyric"
           => /\ Loaded(lyrics', ly_out'.track_id) = {}
              /\ ly_out'.flag = (Loaded(lyrics, ly_out'.track_id) # {})
              /\ \A id \in LibraryIds \ {ly_out'.track_id} :
                    Loaded(lyrics', id) = Loaded(lyrics, id)
        /\ ly_out'.op = "get_lyric"
           => /\ lyrics' = lyrics
              /\ IF Loaded(lyrics, ly_out'.track_id) = {}
                 THEN ~ly_out'.flag
                 ELSE ly_out'.flag /\ ly_out'.lyric \in Loaded(lyrics, ly_out'.track_id)
        /\ ly_out'.op = "has_lyric"
           => /\ lyrics' = lyrics
              /\ ly_out'.flag = (Loaded(lyrics, ly_out'.track_id) # {}) ]_vars

\* a lyric that was saved has been deleted while the other track keeps its own
C20_Witness ==
    /\ ly_out.op = "delete_lyric"
    /\ ly_out.flag
    /\ lyrics # {}

\* the calls of the log made on the provider
CallsOf(call, i) == SelectSeq(fx_log, LAMBDA e : e.call = call /\ e.provider = i)

\* search_and_fetch of the provider yields Some: its search succeeds with a
\* result above the threshold and its fetch succeeds
YieldsSome(behaviour) ==
    /\ behaviour.search_ok
    /\ \E i \in 1..Len(behaviour.results) : behaviour.results[i] > ConfidenceThreshold
    /\ behaviour.fetch_ok

\* C21: fetch_lyrics invokes the providers one at a time in registration
\* order; it returns the response of the first provider that yields Some and
\* invokes no provider after it; providers that fail or yield None are
\* skipped; it returns Ok(None), never an error, exactly when none yields Some.
C21_FirstProviderWithLyricsWins ==
    LET searched == SelectSeq(fx_log, LAMBDA e : e.call = "search")
    IN  /\ \A k \in 1..Len(searched) : searched[k].provider = k
        /\ fx_out.status # "err"
        /\ fx_pc = "done"
           => IF \E i \in 1..Len(providers) : YieldsSome(providers[i])
              THEN LET winner == Min({i \in 1..Len(providers) : YieldsSome(providers[i])})
                   IN  /\ fx_out.status = "ok_some"
                       /\ fx_out.provider = winner
                       /\ Len(searched) = winner
              ELSE /\ fx_out.status = "ok_none"
                   /\ Len(searched) = Len(providers)

\* the first provider failed and the second one won
C21_Witness ==
    /\ fx_pc = "done"
    /\ Len(providers) = 2
    /\ ~providers[1].search_ok
    /\ fx_out = FetchReturn("ok_some", 2, 1)

\* C22: search_and_fetch calls fetch at most once, for a result of the
\* greatest confidence, and only when that confidence is above 0.5; without
\* results or with a best confidence of 0.5 or less fetch is not called.
C22_FetchOnlyBestAboveThreshold ==
    \A i \in 1..Len(providers) :
        LET results == providers[i].results
            fetched == CallsOf("fetch", i)
        IN  /\ Len(fetched) <= 1
            /\ \A k \in 1..Len(fetched) :
                  /\ fetched[k].id \in 1..Len(results)
                  /\ \A j \in 1..Len(results) : results[j] <= results[fetched[k].id]
                  /\ results[fetched[k].id] > ConfidenceThreshold
            /\ (\A j \in 1..Len(results) : results[j] <= ConfidenceThreshold)
               => fetched = <<>>
            /\ (fx_pc = "done" /\ ~(\E j \in 1..Len(results) : results[j] > ConfidenceThreshold))
               => fx_out.provider # i

\* the better of two results was fetched, the one at the base confidence
\* was not
C22_Witness ==
    /\ Len(providers) >= 1
    /\ providers[1].results = <<8, 5>>
    /\ CallsOf("fetch", 1) = <<[call |-> "fetch", provider |-> 1, id |-> 1]>>

\* C23: for a 24-byte key and an 8-byte block, decrypting the block and
\* encrypting the result with the same key gives the block back; the round
\* keys of the decrypt schedule are those of the encrypt schedule in
\* reverse order.
C23_EncryptUndoesDecrypt ==
    /\ des_out.stage = "encrypted" => des_out.encrypted = des_in.block
    /\ des_out.stage = "none" /\ des_in.key # NoBytes
       => LET key == SubSeq(des_in.key, 1, 8)
          IN  \A g \in 1..16 :
                 key_schedule(key, DECRYPT)[g] = key_schedule(key, ENCRYPT)[17 - g]

\* a block that decryption changes has come back from encryption
C23_Witness ==
    /\ des_out.stage = "encrypted"
    /\ des_in.key = QQ_KEY
    /\ des_out.decrypted # des_in.block
    /\ des_out.encrypted = des_in.block

\* C24: with the key of QQ Music and the decrypt schedule, the block
\* 00 36 7F E8 E5 05 42 AB becomes 78 9C 45 58 DB 6E 55 D7.
C24_TestBlockDecrypts ==
    (/\ des_out.stage \in {"decrypted", "encrypting", "encrypted"}
     /\ des_in.key = QQ_KEY
     /\ des_in.block = TestBlock)
    => Numbers(des_out.decrypted) = <<120, 156, 69, 88, 219, 110, 85, 215>>

\* the test block has been decrypted with the key of QQ Music
C24_Witness ==
    /\ des_out.stage = "decrypted"
    /\ des_in.key = QQ_KEY
    /\ des_in.block = TestBlock
    /\ Numbers(des_out.decrypted)[1] = 120

\* C25: after update_track_metadata succeeds on a FLAC, MP3 or M4A file,
\* every canonical field that the update gives has the update's value in the
\* returned track and in a following get_track, and every field the update
\* leaves null keeps its previous value.
UpdateApplied(track) ==
    \A f \in CanonicalFields :
        track[f] = IF md_in.update[f] # NoText THEN md_in.update[f]
                   ELSE ParseFields(md_in.tag)[f]

C25_UpdateSetsGivenFieldsKeepsOthers ==
    /\ md_out.status = "ok" => UpdateApplied(md_out.track)
    /\ md_out.read => UpdateApplied(md_out.got)

\* C26: get_albums returns one album per album name of the index (tracks
\* without an album under "Unknown Album"), in strictly ascending order of
\* the names, every track in exactly one album, track_count the number of
\* tracks listed, the counts summing to the size of the index; get_artists
\* groups these albums by artist in the same way, with "Unknown Artist".
NameOfAlbum(track) == IF track.album = NoText THEN UnknownAlbum ELSE track.album
NameOfArtist(album) == IF album.artist = NoText THEN UnknownArtist ELSE album.artist

StrictlyAscending(seq) ==
    \A i \in 1..Len(seq) : \A j \in 1..Len(seq) : i < j => Less(seq[i].name, seq[j].name)

AlbumsGroupIndex(albums, index) ==
    /\ {albums[i].name : i \in 1..Len(albums)} = {NameOfAlbum(index[k]) : k \in 1..Len(index)}
    /\ StrictlyAscending(albums)
    /\ \A k \in 1..Len(index) :
          Cardinality({<<i, j>> \in (1..Len(albums)) \X (1..MaxIndex + 1) :
                          /\ j <= Len(albums[i].tracks)
                          /\ albums[i].tracks[j] = index[k]}) = 1
    /\ \A i \in 1..Len(albums) :
          /\ albums[i].track_count = Len(albums[i].tracks)
          /\ \A j \in 1..Len(albums[i].tracks) :
                NameOfAlbum(albums[i].tracks[j]) = albums[i].name
    /\ Sum([i \in 1..Len(albums) |-> albums[i].track_count]) = Len(index)

ArtistsGroupAlbums(artists, albums) ==
    /\ {artists[i].name : i \in 1..Len(artists)} = {NameOfArtist(albums[k]) : k \in 1..Len(albums)}
    /\ StrictlyAscending(artists)
    /\ \A k \in 1..Len(albums) :
          Cardinality({<<i, j>> \in (1..Len(artists)) \X (1..MaxIndex + 1) :
                          /\ j <= Len(artists[i].albums)
                          /\ artists[i].albums[j] = albums[k]}) = 1
    /\ \A i \in 1..Len(artists) :
          /\ artists[i].album_count = Len(artists[i].albums)
          /\ artists[i].track_count =
                Sum([j \in 1..Len(artists[i].albums) |-> artists[i].albums[j].track_count])
          /\ \A j \in 1..Len(artists[i].albums) :
                NameOfArtist(artists[i].albums[j]) = artists[i].name
    /\ Sum([i \in 1..Len(artists) |-> artists[i].track_count]) = Len(al_in)

C26_AlbumsAndArtistsPartitionIndex ==
    /\ al_out.stage # "none" => AlbumsGroupIndex(al_out.albums, al_in)
    /\ al_out.stage = "artists" => ArtistsGroupAlbums(al_out.artists, al_out.albums)

\* an index with a track without an album and two albums of different
\* artists has been grouped
C26_Witness ==
    /\ al_out.stage = "artists"
    /\ Len(al_in) = MaxIndex
    /\ \E k \in 1..Len(al_in) : al_in[k].album = NoText
    /\ Len(al_out.albums) >= 2
    /\ Len(al_out.artists) >= 2
    /\ \E i \in 1..Len(al_out.albums) : al_out.albums[i].track_count >= 2

\* C27: under fair scheduling every call of get_stats returns, whatever the
\* writers of the index do meanwhile.
C27_GetStatsReturns ==
    \A r \in Readers : (rw_pc[r] = "tracks.read") ~> (rw_pc[r] = "returned")

\* C28: once every concurrent PUT /lyrics/:id and DELETE /lyrics/:id request
\* for an indexed track has returned, the has_lyrics flag of the track is
\* true exactly when the lyrics database holds a row for the track.
C28_FlagMatchesDatabase ==
    (lr_pc # <<>> /\ \A q \in LyricRequests : lr_pc[q] = "returned")
    => (FindTrack(tracks, RaceTrack).has_lyrics <=> CountLyrics(lyrics, RaceTrack) > 0)

\* C29: once every concurrent add_track_to_playlist and
\* remove_track_from_playlist call on a playlist has returned, the stored
\* positions of its tracks are pairwise distinct and are exactly 0..len-1.
PositionsOf(pt, pid) == {r.position : r \in TracksOf(pt, pid)}

C29_PositionsDistinctAndDense ==
    (/\ pl_locals # <<>>
     /\ \A c \in Clients : pl_pc[c] = "idle" /\ pl_out[c] # NoReturn)
    => /\ Cardinality(PositionsOf(playlist_tracks, "p1"))
            = Cardinality(TracksOf(playlist_tracks, "p1"))
       /\ PositionsOf(playlist_tracks, "p1")
            = 0..(Cardinality(TracksOf(playlist_tracks, "p1")) - 1)

====
